---- MODULE Spec2Model ----
(***************************************************************************)
(* Telemetry-adaptive HDR frame processor (core/processors/hdr_processor). *)
(*                                                                         *)
(* Numbers.  The tables of config/settings.py hold decimals with at most   *)
(* two places; they are written here in hundredths (1.8 -> 180).  The      *)
(* enhancement parameters are exact rationals in fixed point: one unit is  *)
(* 1/(100*TScale), where TScale is the least common multiple of the gaps   *)
(* between adjacent ambient-light and colour-temperature breakpoints, so   *)
(* that for every integer reading the blend factor t and the blended       *)
(* values are exact.  Motion readings and the distances computed from them *)
(* are IEEE-754 doubles, modelled with their rounding (see Dbl below),     *)
(* because the nearest-breakpoint choice depends on it.                    *)
(*                                                                         *)
(* Pixels.  The model follows the first pixel of a frame through gamma     *)
(* decode, white balance and exposure.  The product of a channel value and *)
(* a gain is the double the source computes: the exact product, or the     *)
(* integer below it where the double falls short of an exact product that  *)
(* is an integer (see ShortProducts).  The stages OpenCV computes from the *)
(* whole image (Lab conversion, CLAHE, denoising) appear by name only, and *)
(* the lightness they give the followed pixel is an input of the call.     *)
(*                                                                         *)
(* Servers.  The callers of the processor are modelled next to it: a       *)
(* caller that keeps every result (SpecKeep), the REST handlers of         *)
(* web/api/api_routes.py (SpecApi), and the /start and /stop handlers and  *)
(* process_video tasks of web_demo.py under one event loop (SpecWeb, and   *)
(* SpecWebFair where every ready task is eventually run).                  *)
(***************************************************************************)
EXTENDS Integers, Sequences, FiniteSets, TLC

VARIABLES
    preset,       \* HDRProcessor.preset, per processor instance
    params,       \* HDRProcessor.params (HDRParameters), per processor instance
    frame_count,  \* HDRProcessor.frame_count
    total_time,   \* HDRProcessor.total_time (ms)
    luts,         \* the lookup tables of the instance (gamma_decode, ...)
    mappings,     \* config.settings.TELEMETRY_HDR_MAPPINGS as the process holds it
    calls,        \* history: number of process_frame calls made on the instance
    returned,     \* history: the process_time_ms of each call that returned
    last,         \* history: arguments and result of the latest process_frame call
    kept,         \* what the caller of process_frame holds: each call's result
    web,          \* web_demo.py: the WebDemo instance and its process_video tasks
    api           \* web/api/api_routes.py: processing_state, and the requests served

vars == <<preset, params, frame_count, total_time, luts, mappings, calls, returned,
         last, kept, web, api>>

\* the attributes of one HDRProcessor instance, with their history
processor == <<preset, params, frame_count, total_time, luts, mappings, calls,
              returned, last>>

(***************************************************************************)
(* Bounds of the model.                                                    *)
(***************************************************************************)
MaxFrames == 2

\* requests the REST router handles in one run
MaxRequests == 4

\* /start and /stop requests the web demo handles in one run
MaxWebRequests == 3

\* frames of the video the web demo plays in a loop (the demo video the
\* code writes has 150)
VideoFrames == 2

\* measured durations of a call, in ms
Durations == {1, 2}

(***************************************************************************)
(* config/settings.py                                                      *)
(***************************************************************************)
HDR_PRESETS ==
    [ performance |-> [clahe_clip |-> 200, clahe_grid |-> <<4, 4>>,
                       saturation_boost |-> 105, sharpening |-> 30,
                       tone_curve |-> "linear", denoise |-> FALSE],
      balanced    |-> [clahe_clip |-> 300, clahe_grid |-> <<8, 8>>,
                       saturation_boost |-> 110, sharpening |-> 60,
                       tone_curve |-> "s_curve", denoise |-> TRUE,
                       denoise_strength |-> 5],
      quality     |-> [clahe_clip |-> 400, clahe_grid |-> <<16, 16>>,
                       saturation_boost |-> 115, sharpening |-> 80,
                       tone_curve |-> "adaptive", denoise |-> TRUE,
                       denoise_strength |-> 10, detail_enhancement |-> TRUE] ]

TELEMETRY_HDR_MAPPINGS ==
    [ ambient_light |->
          (0     :> [exposure |-> 180, contrast |-> 120]) @@
          (100   :> [exposure |-> 140, contrast |-> 110]) @@
          (500   :> [exposure |-> 120, contrast |-> 100]) @@
          (1000  :> [exposure |-> 100, contrast |-> 95])  @@
          (10000 :> [exposure |-> 80,  contrast |-> 90]),
      motion_level |->
          (0   :> [sharpening |-> 80, temporal_denoise |-> TRUE])  @@
          (30  :> [sharpening |-> 60, temporal_denoise |-> TRUE])  @@
          (60  :> [sharpening |-> 40, temporal_denoise |-> FALSE]) @@
          (100 :> [sharpening |-> 20, temporal_denoise |-> FALSE]),
      color_temperature |->
          (2000 :> [r_gain |-> 130, b_gain |-> 70])  @@
          (3000 :> [r_gain |-> 110, b_gain |-> 85])  @@
          (5000 :> [r_gain |-> 100, b_gain |-> 100]) @@
          (7000 :> [r_gain |-> 90,  b_gain |-> 115]) ]

(***************************************************************************)
(* Python's sorted() on a set of numbers: the ascending sequence.          *)
(***************************************************************************)
RECURSIVE sorted(_)
sorted(S) ==
    IF S = {} THEN << >>
    ELSE LET m == CHOOSE x \in S : \A y \in S : x <= y
         IN  <<m>> \o sorted(S \ {m})

(***************************************************************************)
(* Fixed point.                                                            *)
(***************************************************************************)
\* units of the blend factor t (t = 1.0 is TScale): the least common multiple
\* of the gaps, which are 100, 400, 500, 9000, 1000 and 2000
TScale == 2 * 9000

\* a decimal given in hundredths, as a parameter value
Fix(h) == h * TScale

(***************************************************************************)
(* IEEE-754 doubles for the motion computation.  A double x is the pair    *)
(* <<h, e>> with x = h/100 + e/(100 * 2^60): h is the decimal it stands    *)
(* for, in hundredths, and e its rounding residue.  Supported magnitudes   *)
(* are 0 and [2^-8, 8), where the spacing of doubles in binade 2^j is      *)
(* 100 * 2^(j+8) residue units.                                            *)
(***************************************************************************)
Pow2(n) ==
    <<1, 2, 4, 8, 16, 32, 64, 128, 256, 512, 1024, 2048, 4096, 8192, 16384,
      32768, 65536, 131072, 262144, 524288, 1048576, 2097152>>[n + 1]

\* 2^n mod 100; 2^20 = 1 (mod 25), so from n = 2 on the residues repeat
\* with period 20
Pow2Mod100(n) == IF n < 2 THEN Pow2(n) ELSE Pow2(((n - 2) % 20) + 2) % 100

\* h/100 + residue e is at least 2^j
AtLeastPow2(h, e, j) ==
    IF j >= 0
    THEN h > 100 * Pow2(j) \/ (h = 100 * Pow2(j) /\ e >= 0)
    ELSE h * Pow2(-j) > 100 \/ (h * Pow2(-j) = 100 /\ e >= 0)

\* the largest j <= top with 2^j <= h/100 + residue e
RECURSIVE DExpFrom(_, _, _)
DExpFrom(h, e, top) ==
    IF AtLeastPow2(h, e, top) THEN top ELSE DExpFrom(h, e, top - 1)

\* the binade of a positive value below 8: floor(log2(x))
DExp(h, e) == DExpFrom(h, e, 2)

\* round-to-nearest, ties-to-even, of the positive exact value <<h, e>>
DRound(h, e) ==
    LET k   == DExp(h, e) + 8
        U   == 100 * Pow2(k)
        hm  == Pow2(k + 1) * ((h * Pow2Mod100(59 - k)) % 100)
        r2  == (hm + e) % (2 * U)
        r   == r2 % U
        odd == r2 >= U
    IN  IF r = 0 THEN <<h, e>>
        ELSE IF 2 * r < U THEN <<h, e - r>>
        ELSE IF 2 * r > U THEN <<h, e - r + U>>
        ELSE IF odd THEN <<h, e - r + U>> ELSE <<h, e - r>>

DNeg(x) == <<-x[1], -x[2]>>

\* the double a decimal literal (or a reading printed as h/100) denotes
Dbl(h) == IF h = 0 THEN <<0, 0>>
          ELSE IF h > 0 THEN DRound(h, 0)
          ELSE DNeg(DRound(-h, 0))

\* x - y in double arithmetic
DSub(x, y) ==
    LET h == x[1] - y[1]
        e == x[2] - y[2]
    IN  IF h = 0 THEN <<0, e>>
        ELSE IF h > 0 THEN DRound(h, e)
        ELSE DNeg(DRound(-h, -e))

\* abs(x)
DAbs(x) == IF x[1] < 0 \/ (x[1] = 0 /\ x[2] < 0) THEN DNeg(x) ELSE x

\* x < y
DLess(x, y) == x[1] < y[1] \/ (x[1] = y[1] /\ x[2] < y[2])

(***************************************************************************)
(* Telemetry frames.  A frame handed to process_frame is either absent     *)
(* (None) or holds at most one latest value per telemetry kind; a kind's   *)
(* field is the empty set when the frame has no reading of that kind.      *)
(* Ambient light is in lux, colour temperature in kelvin (integers),       *)
(* motion in hundredths.                                                   *)
(***************************************************************************)
TelemetryFrame(lux, motion, kelvin) ==
    [none |-> FALSE, ambient_light |-> lux, motion |-> motion,
     color_temperature |-> kelvin]

NoTelemetry ==
    [none |-> TRUE, ambient_light |-> {}, motion |-> {}, color_temperature |-> {}]

\* TelemetryFrame.get_latest_values(): the kind -> value mapping of the frame
get_latest_values(telemetry) ==
    [ambient_light     |-> telemetry.ambient_light,
     motion            |-> telemetry.motion,
     color_temperature |-> telemetry.color_temperature]

\* the value stored under a key that is present
ValueOf(entry) == CHOOSE v \in entry : TRUE

(***************************************************************************)
(* HDRParameters                                                           *)
(***************************************************************************)
HDRParameters ==
    [exposure         |-> Fix(100),
     contrast         |-> Fix(100),
     saturation       |-> Fix(110),
     clahe_clip       |-> Fix(300),
     clahe_grid       |-> <<8, 8>>,
     sharpening       |-> Fix(60),
     highlights       |-> Fix(0),
     shadows          |-> Fix(0),
     white_balance    |-> <<Fix(100), Fix(100), Fix(100)>>,
     tone_curve       |-> "s_curve",
     denoise_strength |-> 5]

\* t = (v - b1) / (b2 - b1), in units of 1/TScale
BlendFactor(v, b1, b2) == ((v - b1) * TScale) \div (b2 - b1)

\* Lerp with the two weights exchanged
LerpSwapped(p1, p2, t) == p1 * t + p2 * (TScale - t)

\* p1 * (1 - t) + p2 * t, for p1, p2 in hundredths: a parameter value
Lerp(p1, p2, t) == p1 * (TScale - t) + p2 * t

\* Segment that takes the first iteration of the loop without testing it
SegmentFirst(points, v) == 1

\* the first i of range(len(points) - 1) with points[i] <= v <= points[i + 1],
\* 1-based; 0 when the loop ends without a match
Segment(points, v) ==
    LET hits == {i \in 1..(Len(points) - 1) : points[i] <= v /\ v <= points[i + 1]}
    IN  IF hits = {} THEN 0 ELSE CHOOSE i \in hits : \A j \in hits : i <= j

\* lines 36-54: the ambient-light block
AmbientLightAdjust(self, telemetry) ==
    IF telemetry.ambient_light = {} THEN self
    ELSE LET lux        == ValueOf(telemetry.ambient_light)
             mapping    == mappings.ambient_light
             lux_points == sorted(DOMAIN mapping)
         IN  IF lux <= lux_points[1]
             THEN self     \* the effect is bound to a local name and dropped
             ELSE IF lux >= lux_points[Len(lux_points)]
             THEN self     \* likewise
             ELSE LET i == Segment(lux_points, lux)
                  IN  IF i = 0 THEN self
                      ELSE LET t  == BlendFactor(lux, lux_points[i], lux_points[i + 1])
                               p1 == mapping[lux_points[i]]
                               p2 == mapping[lux_points[i + 1]]
                           IN  [self EXCEPT
                                  !.exposure = Lerp(p1.exposure, p2.exposure, t),
                                  !.contrast = Lerp(p1.contrast, p2.contrast, t)]

\* MotionKey without the abs()
MotionKeySigned(x, motion) == DSub(Dbl(x), Dbl(motion))

\* abs(x - motion), the key of min() at line 63
MotionKey(x, motion) == DAbs(DSub(Dbl(x), Dbl(motion)))

\* min(levels, key=...): scan the sequence from position i on, keeping the
\* element seen so far with the smallest key; a later element replaces it
\* only when its key is strictly smaller
RECURSIVE MinFrom(_, _, _, _, _)
MinFrom(levels, motion, i, best, bestKey) ==
    IF i > Len(levels) THEN best
    ELSE LET key == MotionKey(levels[i], motion)
         IN  IF DLess(key, bestKey)
             THEN MinFrom(levels, motion, i + 1, levels[i], key)
             ELSE MinFrom(levels, motion, i + 1, best, bestKey)

Closest(levels, motion) ==
    MinFrom(levels, motion, 2, levels[1], MotionKey(levels[1], motion))

\* MotionAdjust that also applies the level's temporal_denoise flag
MotionAdjustDenoise(self, telemetry) ==
    IF telemetry.motion = {} THEN self
    ELSE LET motion     == ValueOf(telemetry.motion)
             motion_map == mappings.motion_level
             closest    == Closest(sorted(DOMAIN motion_map), motion)
         IN  [self EXCEPT !.sharpening = Fix(motion_map[closest].sharpening),
                          !.denoise_strength =
                              IF motion_map[closest].temporal_denoise THEN @ ELSE 0]

\* MotionAdjust that moves sharpening halfway from its current value to the
\* value of the table
MotionAdjustSmoothed(self, telemetry) ==
    IF telemetry.motion = {} THEN self
    ELSE LET motion     == ValueOf(telemetry.motion)
             motion_map == mappings.motion_level
             closest    == Closest(sorted(DOMAIN motion_map), motion)
         IN  [self EXCEPT !.sharpening =
                              (@ + Fix(motion_map[closest].sharpening)) \div 2]

\* lines 57-64: the motion block
MotionAdjust(self, telemetry) ==
    IF telemetry.motion = {} THEN self
    ELSE LET motion     == ValueOf(telemetry.motion)
             motion_map == mappings.motion_level
             levels     == sorted(DOMAIN motion_map)
             closest    == Closest(levels, motion)
         IN  [self EXCEPT !.sharpening = Fix(motion_map[closest].sharpening)]

\* WhiteBalanceTriple with the green gain set between red and blue
WhiteBalanceTripleGrey(r, b) == <<r, (r + b) \div 2, b>>

\* line 85: the gain triple built from the blended red and blue gains
WhiteBalanceTriple(r, b) == <<r, Fix(100), b>>

\* lines 67-86: the colour-temperature block
ColorTemperatureAdjust(self, telemetry) ==
    IF telemetry.color_temperature = {} THEN self
    ELSE LET kelvin   == ValueOf(telemetry.color_temperature)
             temp_map == mappings.color_temperature
             temps    == sorted(DOMAIN temp_map)
         IN  IF kelvin <= temps[1]
             THEN self     \* wb is bound to a local name and dropped
             ELSE IF kelvin >= temps[Len(temps)]
             THEN self     \* likewise
             ELSE LET i == Segment(temps, kelvin)
                  IN  IF i = 0 THEN self
                      ELSE LET t  == BlendFactor(kelvin, temps[i], temps[i + 1])
                               w1 == temp_map[temps[i]]
                               w2 == temp_map[temps[i + 1]]
                               r  == Lerp(w1.r_gain, w2.r_gain, t)
                               b  == Lerp(w1.b_gain, w2.b_gain, t)
                           IN  [self EXCEPT !.white_balance = WhiteBalanceTriple(r, b)]

\* the exception a block raises before it assigns anything, or "none":
\* line 38 (KeyError when the table is not in the mappings) and line 42
\* (IndexError on lux_points[0] when the table has no breakpoint)
AmbientLightRaised(telemetry) ==
    IF telemetry.ambient_light = {} THEN "none"
    ELSE IF "ambient_light" \notin DOMAIN mappings THEN "KeyError"
    ELSE IF DOMAIN mappings.ambient_light = {} THEN "IndexError"
    ELSE "none"

\* line 59 (KeyError) and line 63 (ValueError: min() of an empty sequence)
MotionRaised(telemetry) ==
    IF telemetry.motion = {} THEN "none"
    ELSE IF "motion_level" \notin DOMAIN mappings THEN "KeyError"
    ELSE IF DOMAIN mappings.motion_level = {} THEN "ValueError"
    ELSE "none"

\* line 69 (KeyError) and line 73 (IndexError on temps[0])
ColorTemperatureRaised(telemetry) ==
    IF telemetry.color_temperature = {} THEN "none"
    ELSE IF "color_temperature" \notin DOMAIN mappings THEN "KeyError"
    ELSE IF DOMAIN mappings.color_temperature = {} THEN "IndexError"
    ELSE "none"

\* the exception interpolate_from_telemetry ends with, or "none": that of
\* the first block that raises
InterpolateRaised(telemetry) ==
    IF AmbientLightRaised(telemetry) # "none" THEN AmbientLightRaised(telemetry)
    ELSE IF MotionRaised(telemetry) # "none" THEN MotionRaised(telemetry)
    ELSE ColorTemperatureRaised(telemetry)

\* HDRParameters.interpolate_from_telemetry: the three blocks in order; a
\* block that raises ends the call and keeps what the blocks before it assigned
interpolate_from_telemetry(self, telemetry) ==
    IF AmbientLightRaised(telemetry) # "none" THEN self
    ELSE IF MotionRaised(telemetry) # "none"
    THEN AmbientLightAdjust(self, telemetry)
    ELSE IF ColorTemperatureRaised(telemetry) # "none"
    THEN MotionAdjust(AmbientLightAdjust(self, telemetry), telemetry)
    ELSE ColorTemperatureAdjust(MotionAdjust(AmbientLightAdjust(self, telemetry),
                                             telemetry), telemetry)

(***************************************************************************)
(* HDRProcessor                                                            *)
(***************************************************************************)
(***************************************************************************)
(* The lookup-table bank of _create_luts.  A table is a sequence of 256    *)
(* entries; the entry for input i is at position i + 1.  The gamma and     *)
(* S-curve entries are the values of the source expressions in IEEE        *)
(* doubles, truncated by the conversion to uint8.                          *)
(***************************************************************************)
\* lines 119-122: (i / 255.0) ** 2.2 * 255, truncated
GammaDecodeValues ==
    <<0, 0, 0, 0, 0, 0, 0, 0, 0, 0, 0, 0, 0, 0, 0, 0,
      0, 0, 0, 0, 0, 1, 1, 1, 1, 1, 1, 1, 1, 2, 2, 2,
      2, 2, 3, 3, 3, 3, 3, 4, 4, 4, 4, 5, 5, 5, 5, 6,
      6, 6, 7, 7, 7, 8, 8, 8, 9, 9, 9, 10, 10, 10, 11, 11,
      12, 12, 13, 13, 13, 14, 14, 15, 15, 16, 16, 17, 17, 18, 18, 19,
      19, 20, 21, 21, 22, 22, 23, 23, 24, 25, 25, 26, 27, 27, 28, 29,
      29, 30, 31, 31, 32, 33, 33, 34, 35, 36, 36, 37, 38, 39, 40, 40,
      41, 42, 43, 44, 45, 45, 46, 47, 48, 49, 50, 51, 52, 53, 54, 55,
      55, 56, 57, 58, 59, 60, 61, 62, 63, 65, 66, 67, 68, 69, 70, 71,
      72, 73, 74, 75, 77, 78, 79, 80, 81, 82, 84, 85, 86, 87, 88, 90,
      91, 92, 93, 95, 96, 97, 99, 100, 101, 103, 104, 105, 107, 108, 109, 111,
      112, 114, 115, 117, 118, 119, 121, 122, 124, 125, 127, 128, 130, 131, 133, 135,
      136, 138, 139, 141, 142, 144, 146, 147, 149, 151, 152, 154, 156, 157, 159, 161,
      162, 164, 166, 168, 169, 171, 173, 175, 176, 178, 180, 182, 184, 186, 187, 189,
      191, 193, 195, 197, 199, 201, 203, 205, 207, 209, 211, 213, 215, 217, 219, 221,
      223, 225, 227, 229, 231, 233, 235, 237, 239, 241, 244, 246, 248, 250, 252, 255>>

\* lines 123-126: (i / 255.0) ** (1 / 2.2) * 255, truncated
GammaEncodeValues ==
    <<0, 20, 28, 33, 38, 42, 46, 49, 52, 55, 58, 61, 63, 65, 68, 70,
      72, 74, 76, 78, 80, 81, 83, 85, 87, 88, 90, 91, 93, 94, 96, 97,
      99, 100, 102, 103, 104, 106, 107, 108, 109, 111, 112, 113, 114, 115, 117, 118,
      119, 120, 121, 122, 123, 124, 125, 126, 128, 129, 130, 131, 132, 133, 134, 135,
      136, 136, 137, 138, 139, 140, 141, 142, 143, 144, 145, 146, 147, 147, 148, 149,
      150, 151, 152, 153, 153, 154, 155, 156, 157, 158, 158, 159, 160, 161, 162, 162,
      163, 164, 165, 165, 166, 167, 168, 168, 169, 170, 171, 171, 172, 173, 174, 174,
      175, 176, 176, 177, 178, 178, 179, 180, 181, 181, 182, 183, 183, 184, 185, 185,
      186, 187, 187, 188, 189, 189, 190, 190, 191, 192, 192, 193, 194, 194, 195, 196,
      196, 197, 197, 198, 199, 199, 200, 200, 201, 202, 202, 203, 203, 204, 205, 205,
      206, 206, 207, 208, 208, 209, 209, 210, 210, 211, 212, 212, 213, 213, 214, 214,
      215, 216, 216, 217, 217, 218, 218, 219, 219, 220, 220, 221, 222, 222, 223, 223,
      224, 224, 225, 225, 226, 226, 227, 227, 228, 228, 229, 229, 230, 230, 231, 231,
      232, 232, 233, 233, 234, 234, 235, 235, 236, 236, 237, 237, 238, 238, 239, 239,
      240, 240, 241, 241, 242, 242, 243, 243, 244, 244, 245, 245, 246, 246, 247, 247,
      248, 248, 249, 249, 249, 250, 250, 251, 251, 252, 252, 253, 253, 254, 254, 255>>

\* lines 129-131: 1 / (1 + exp(-12 * (x - 0.5))) * 255 at x = i / 255, truncated
SCurveValues ==
    <<0, 0, 0, 0, 0, 0, 0, 0, 0, 0, 1, 1, 1, 1, 1, 1,
      1, 1, 1, 1, 1, 1, 1, 1, 1, 2, 2, 2, 2, 2, 2, 2,
      2, 2, 3, 3, 3, 3, 3, 3, 4, 4, 4, 4, 4, 5, 5, 5,
      5, 6, 6, 6, 7, 7, 7, 8, 8, 8, 9, 9, 10, 10, 11, 11,
      12, 12, 13, 13, 14, 15, 15, 16, 17, 18, 19, 19, 20, 21, 22, 23,
      24, 25, 26, 27, 29, 30, 31, 33, 34, 35, 37, 38, 40, 42, 43, 45,
      47, 49, 50, 52, 54, 56, 59, 61, 63, 65, 67, 70, 72, 75, 77, 80,
      82, 85, 88, 91, 93, 96, 99, 102, 105, 108, 111, 114, 117, 120, 123, 126,
      128, 131, 134, 137, 140, 143, 146, 149, 152, 155, 158, 161, 163, 166, 169, 172,
      174, 177, 179, 182, 184, 187, 189, 191, 193, 195, 198, 200, 202, 204, 205, 207,
      209, 211, 212, 214, 216, 217, 219, 220, 221, 223, 224, 225, 227, 228, 229, 230,
      231, 232, 233, 234, 235, 235, 236, 237, 238, 239, 239, 240, 241, 241, 242, 242,
      243, 243, 244, 244, 245, 245, 246, 246, 246, 247, 247, 247, 248, 248, 248, 249,
      249, 249, 249, 250, 250, 250, 250, 250, 251, 251, 251, 251, 251, 251, 252, 252,
      252, 252, 252, 252, 252, 252, 252, 253, 253, 253, 253, 253, 253, 253, 253, 253,
      253, 253, 253, 253, 253, 253, 254, 254, 254, 254, 254, 254, 254, 254, 254, 254>>

\* the i for which the double x = i * (1 / 255.0) of np.linspace(0, 1, 256)
\* gives x * 255 just below i, so that the truncation yields i - 1
LinspaceShort ==
    {33, 37, 41, 45, 49, 53, 57, 61, 66, 74, 82, 90, 98, 106, 114, 122, 132,
     148, 164, 180, 196, 212, 228, 244}

\* HighlightEntry with the compressed part subtracted from the knee
HighlightEntryInverted(i, knee) ==
    LET a == 10 * i - 255 * knee
    IN  IF a <= 0
        THEN i - (IF i \in LinspaceShort THEN 1 ELSE 0)
        ELSE (255 * knee * (2550 + a) - 2550 * a) \div (10 * (2550 + a))

\* lines 147-149 in double arithmetic: the <<knee, i>>, for the knees 0,
\* 0.1, ..., 1 in tenths, where y * 255 is exactly an integer and the double
\* is below it (131.99999999999997 for 132 at knee 0.4)
CompressedShort == {<<4, 136>>, <<6, 187>>}

\* lines 138-149: entry i of the highlight table for a knee given in tenths.
\* With x = i / 255 and a / 2550 = x - knee: y = x up to the knee and
\* y = knee + (x - knee) / (1 + (x - knee)) above it; the entry is the
\* double y * 255 truncated
HighlightEntry(i, knee) ==
    LET a == 10 * i - 255 * knee
    IN  IF a <= 0
        THEN i - (IF i \in LinspaceShort THEN 1 ELSE 0)
        ELSE (255 * knee * (2550 + a) + 2550 * a) \div (10 * (2550 + a))
                 - (IF <<knee, i>> \in CompressedShort THEN 1 ELSE 0)

\* HDRProcessor._create_highlight_lut(knee_point), knee_point in tenths
create_highlight_lut(knee_point) ==
    [k \in 1..256 |-> HighlightEntry(k - 1, knee_point)]

\* create_luts with the encode table built from the decode expression
create_luts_one_gamma ==
    [gamma_decode  |-> GammaDecodeValues,
     gamma_encode  |-> GammaDecodeValues,
     s_curve_lut   |-> SCurveValues,
     highlight_lut |-> create_highlight_lut(7)]

\* HDRProcessor._create_luts: the four tables the instance holds
create_luts ==
    [gamma_decode  |-> GammaDecodeValues,
     gamma_encode  |-> GammaEncodeValues,
     s_curve_lut   |-> SCurveValues,
     highlight_lut |-> create_highlight_lut(7)]

\* cv2.LUT on one channel value
LUT(value, table) == table[value + 1]

\* update_from_preset that also lifts the shadows for a known preset
update_from_preset_shadows(self, id) ==
    IF id \in DOMAIN HDR_PRESETS
    THEN [self EXCEPT !.clahe_clip = Fix(HDR_PRESETS[id].clahe_clip),
                      !.clahe_grid = HDR_PRESETS[id].clahe_grid,
                      !.saturation = Fix(HDR_PRESETS[id].saturation_boost),
                      !.sharpening = Fix(HDR_PRESETS[id].sharpening),
                      !.tone_curve = HDR_PRESETS[id].tone_curve,
                      !.denoise_strength =
                          IF HDR_PRESETS[id].denoise
                          THEN HDR_PRESETS[id].denoise_strength ELSE @,
                      !.shadows = Fix(10)]
    ELSE self

\* update_from_preset that treats an unknown identifier as "performance"
update_from_preset_fallback(self, id) ==
    LET p == HDR_PRESETS[IF id \in DOMAIN HDR_PRESETS THEN id ELSE "performance"]
    IN  [self EXCEPT !.clahe_clip = Fix(p.clahe_clip),
                     !.clahe_grid = p.clahe_grid,
                     !.saturation = Fix(p.saturation_boost),
                     !.sharpening = Fix(p.sharpening),
                     !.tone_curve = p.tone_curve]

\* HDRProcessor._update_from_preset
update_from_preset(self, id) ==
    IF id \in DOMAIN HDR_PRESETS
    THEN LET p == HDR_PRESETS[id]
             q == [self EXCEPT !.clahe_clip = Fix(p.clahe_clip),
                               !.clahe_grid = p.clahe_grid,
                               !.saturation = Fix(p.saturation_boost),
                               !.sharpening = Fix(p.sharpening),
                               !.tone_curve = p.tone_curve]
         IN  IF p.denoise
             THEN [q EXCEPT !.denoise_strength = p.denoise_strength]
             ELSE q
    ELSE self

\* the preset identifiers a processor is constructed with: the shipped ones
\* and one that is not in the table
PresetIds == DOMAIN HDR_PRESETS \cup {"cinematic"}

(***************************************************************************)
(* Frames.  A frame is an image array of height x width pixels with a      *)
(* number of 8-bit channels; pixel is the (blue, green, red) value of its  *)
(* first pixel, which the model follows through the per-pixel stages.      *)
(***************************************************************************)
Frame(channels, height, width, pixel) ==
    [channels |-> channels, height |-> height, width |-> width, pixel |-> pixel]

\* a BGR frame with at least one pixel
ValidFrame(frame) ==
    frame.channels = 3 /\ frame.height > 0 /\ frame.width > 0

\* the frame a processor has seen before its first call: none
NoFrame == Frame(3, 0, 0, <<0, 0, 0>>)

\* the white-balance triple that switches the stage off
NeutralBalance == <<Fix(100), Fix(100), Fix(100)>>

\* the result record of a call that has not happened
NoCall ==
    [telemetry |-> NoTelemetry,
     frame     |-> NoFrame,
     raised    |-> "none",
     stages    |-> << >>,
     linear    |-> << >>,
     balanced  |-> << >>,
     clahe_l   |-> << >>,
     exposed   |-> << >>,
     tone      |-> "none",
     metrics   |-> << >>]

\* HDRProcessor.__init__, for each instance of the set ids
Construct(ids, id) ==
    /\ preset      = [p \in ids |-> id]
    /\ params      = [p \in ids |-> update_from_preset(HDRParameters, id)]
    /\ luts        = [p \in ids |-> create_luts]
    /\ frame_count = [p \in ids |-> 0]
    /\ total_time  = [p \in ids |-> 0]
    /\ calls       = [p \in ids |-> 0]
    /\ returned    = [p \in ids |-> << >>]
    /\ last        = [p \in ids |-> NoCall]
    /\ kept        = [p \in ids |-> << >>]

\* UpdatedParams that falls back to the defaults when no telemetry is given
UpdatedParamsReset(self, telemetry) ==
    IF telemetry.none THEN HDRParameters
    ELSE interpolate_from_telemetry(self, get_latest_values(telemetry))

\* lines 166-169: the parameters after the telemetry update
UpdatedParams(self, telemetry) ==
    IF telemetry.none THEN self
    ELSE interpolate_from_telemetry(self, get_latest_values(telemetry))

\* StagesRun with the white balance applied after the equalisation
StagesRunBalanceLate(self) ==
    <<"gamma_decode", "clahe">>
    \o (IF self.white_balance # <<Fix(100), Fix(100), Fix(100)>>
        THEN <<"white_balance">> ELSE << >>)
    \o (IF self.exposure # Fix(100) THEN <<"exposure">> ELSE << >>)
    \o <<"recompose">>
    \o (IF self.tone_curve \in {"s_curve", "adaptive"}
        THEN <<"tone_curve">> ELSE << >>)
    \o (IF self.saturation # Fix(100) THEN <<"saturation">> ELSE << >>)
    \o (IF self.sharpening > 0 THEN <<"detail">> ELSE << >>)
    \o (IF self.highlights # 0 \/ self.shadows # 0
        THEN <<"highlight_shadow">> ELSE << >>)
    \o (IF self.denoise_strength > 0 THEN <<"denoise">> ELSE << >>)
    \o <<"gamma_encode", "metrics">>

\* lines 171-250: the stages a call executes with the parameters self, in
\* order; a guarded stage is listed only when its guard holds
StagesRun(self) ==
    <<"gamma_decode">>
    \o (IF self.white_balance # NeutralBalance
        THEN <<"white_balance">> ELSE << >>)
    \o <<"clahe">>
    \o (IF self.exposure # Fix(100) THEN <<"exposure">> ELSE << >>)
    \o <<"recompose">>
    \o (IF self.tone_curve \in {"s_curve", "adaptive"}
        THEN <<"tone_curve">> ELSE << >>)
    \o (IF self.saturation # Fix(100) THEN <<"saturation">> ELSE << >>)
    \o (IF self.sharpening > 0 THEN <<"detail">> ELSE << >>)
    \o (IF self.highlights # 0 \/ self.shadows # 0
        THEN <<"highlight_shadow">> ELSE << >>)
    \o (IF self.denoise_strength > 0 THEN <<"denoise">> ELSE << >>)
    \o <<"gamma_encode", "metrics">>

\* the exception the pixel stages end with on a frame, or "none".  Nothing in
\* process_frame inspects the shape of the frame; what fails is
\*   line 176: the unpacking b, g, r = cv2.split(linear), reached when the
\*             white balance is not neutral, unless split yields three planes
\*             (ValueError);
\*   line 182: cv2.cvtColor(linear, COLOR_BGR2LAB), which rejects an empty
\*             image and accepts three or four channels only (cv2.error).
FrameRaised(frame, self) ==
    LET empty == frame.height = 0 \/ frame.width = 0
    IN  IF self.white_balance # NeutralBalance /\ (empty \/ frame.channels # 3)
        THEN "ValueError"
        ELSE IF empty \/ frame.channels \notin {3, 4}
        THEN "cv2.error"
        ELSE "none"

\* the stages completed by a call that ended with an exception of the pixel
\* stages: both failure points follow gamma decode directly
StagesBeforeRaise == <<"gamma_decode">>

(***************************************************************************)
(* The products of the pixel stages.  numpy multiplies an 8-bit channel by *)
(* a Python float in IEEE-754 double arithmetic, and the gain is itself    *)
(* the double that p1 * (1 - t) + p2 * t left in the parameter, which is   *)
(* not always the double nearest to the exact blend: at 200 lux the        *)
(* exposure is 1.3499999999999999.  An exact product that is not an        *)
(* integer is at least 1/(100 * TScale) from every integer, further than   *)
(* the rounding of the doubles can move it, so truncating the double       *)
(* product and truncating the exact one differ only where the exact        *)
(* product is an integer and the double falls short of it.  ShortProducts  *)
(* lists those places: for each column of the ambient-light and the        *)
(* colour-temperature table, and each exact value the column takes at an   *)
(* integer reading strictly inside the table, the 8-bit values whose       *)
(* double product with the double of that reading is below the exact       *)
(* product.  A value of the column that is not listed has none.  The       *)
(* entries are in the order of the readings that give them.                *)
(***************************************************************************)
ShortProducts ==
    [ exposure |->
          (2700000 :> {2, 4, 6, 8, 10, 12, 14, 16, 18, 20, 22, 24, 26, 28,
              30, 32, 34, 36, 38, 40, 42, 44, 46, 48, 50, 52, 54, 56, 58,
              60, 62, 64, 66, 68, 70, 72, 74, 76, 78, 80, 82, 84, 86, 88,
              90, 92, 94, 96, 98, 100, 102, 104, 106, 108, 110, 112, 114,
              116, 118, 120, 122, 124, 126, 128, 130, 132, 134, 136, 138,
              140, 142, 144, 146, 148, 150, 152, 154, 156, 158, 160, 162,
              164, 166, 168, 170, 172, 174, 176, 178, 180, 182, 184, 186,
              188, 190, 192, 194, 196, 198, 200, 202, 204, 206, 208, 210,
              212, 214, 216, 218, 220, 222, 224, 226, 228, 230, 232, 234,
              236, 238, 240, 242, 244, 246, 248, 250, 252, 254}) @@
          (2692800 :> {125, 250}) @@
          (2685600 :> {250}) @@
          (2678400 :> {125, 250}) @@
          (2671200 :> {250}) @@
          (2664000 :> {25, 50, 75, 100, 125, 150, 175, 200, 225, 250}) @@
          (2656800 :> {250}) @@
          (2520000 :> {45, 85, 90, 165, 170, 175, 180}) @@
          (2484000 :> {150}) @@
          (2475000 :> {8, 16, 24, 32, 40, 48, 56, 64, 72, 80, 88, 96, 104,
              112, 120, 128, 136, 144, 152, 160, 168, 176, 184, 192, 200,
              208, 216, 224, 232, 240, 248}) @@
          (2462400 :> {125, 250}) @@
          (2457000 :> {200}) @@
          (2455200 :> {250}) @@
          (2452500 :> {80, 160, 240}) @@
          (2448000 :> {75, 125, 150, 175, 250}) @@
          (2440800 :> {250}) @@
          (2433600 :> {125, 250}) @@
          (2430000 :> {20, 40, 60, 80, 120, 140, 160, 180, 220, 240}) @@
          (2412000 :> {150, 250}) @@
          (2404800 :> {125, 250}) @@
          (2397600 :> {250}) @@
          (2394000 :> {100, 200}) @@
          (2390400 :> {125, 250}) @@
          (2383200 :> {250}) @@
          (2376000 :> {25, 50, 75, 100, 125, 150, 175, 200, 225, 250}) @@
          (2347200 :> {125, 250}) @@
          (2340000 :> {10, 20, 30, 40, 50, 60, 70, 80, 90, 100, 110, 120,
              130, 140, 150, 160, 170, 180, 190, 200, 210, 220, 230, 240,
              250}) @@
          (2332800 :> {125, 250}) @@
          (2325600 :> {250}) @@
          (2318400 :> {125, 250}) @@
          (2317500 :> {80, 160, 240}) @@
          (2311200 :> {250}) @@
          (2304000 :> {25, 50, 75, 100, 125, 150, 175, 200, 225, 250}) @@
          (2296800 :> {250}) @@
          (2295000 :> {200}) @@
          (2277000 :> {200}) @@
          (2259000 :> {200}) @@
          (2246400 :> {125, 250}) @@
          (2241000 :> {200}) @@
          (2239200 :> {250}) @@
          (2232000 :> {25, 50, 75, 100, 125, 150, 175, 200, 225, 250}) @@
          (2227500 :> {80, 160, 240}) @@
          (2223000 :> {200}) @@
          (2088000 :> {25, 50, 100, 200}) @@
          (2070000 :> {100, 180, 200, 220}) @@
          (2052000 :> {50, 100, 150, 200}) @@
          (2034000 :> {100, 200}) @@
          (1962000 :> {100, 200}) @@
          (1725000 :> {120, 216, 240}) @@
          (1677600 :> {250}) @@
          (1670400 :> {125, 250}) @@
          (1648000 :> {225}) @@
          (1625000 :> {216}),
      r_gain |->
          (2322000 :> {100, 200}) @@
          (2295000 :> {200}) @@
          (2187000 :> {200}) @@
          (1998000 :> {100, 200}) @@
          (1845000 :> {120, 200, 240}),
      b_gain |->
          (1293750 :> {32, 64, 96, 128, 160, 192, 224}) @@
          (1324800 :> {125, 250}) @@
          (1327500 :> {80, 160, 240}) @@
          (1341000 :> {200}) @@
          (1395000 :> {40, 80, 120, 160, 200, 240}) @@
          (1670400 :> {125, 250}) @@
          (1962000 :> {100, 200}) @@
          (2002500 :> {80, 160, 240}) @@
          (2016000 :> {25, 50, 75, 100, 125, 150, 175, 200, 225, 250}) @@
          (2036250 :> {160}) @@
          (2043000 :> {200}) ]

\* the double product value * gain is below the integer the exact product
\* is; field is the column of the table the gain was blended from
FallsShort(value, gain, field) ==
    /\ gain \in DOMAIN ShortProducts[field]
    /\ value \in ShortProducts[field][gain]

Min(a, b) == IF a < b THEN a ELSE b
Max(a, b) == IF a > b THEN a ELSE b

\* the double product value * gain truncated to an integer
Truncated(value, gain, field) ==
    (value * gain) \div Fix(100)
        - (IF FallsShort(value, gain, field) THEN 1 ELSE 0)

\* ScaleChannel reduced modulo 256 in place of the clip
ScaleChannelWrapped(value, gain, field) == Truncated(value, gain, field) % 256

\* np.clip(value * gain, 0, 255).astype(np.uint8): the double product of an
\* 8-bit value and the gain a parameter holds, limited to [0, 255] and
\* truncated to an integer.  gain is the exact value of the parameter and
\* field the column of the table it was blended from.
ScaleChannel(value, gain, field) ==
    Min(255, Max(0, Truncated(value, gain, field)))

\* line 172 on the followed pixel
GammaDecodeStage(pixel, tables) ==
    [c \in 1..3 |-> LUT(pixel[c], tables.gamma_decode)]

\* WhiteBalanceStage with the red and the blue gain exchanged
WhiteBalanceStageSwapped(linear, white_balance) ==
    IF white_balance # NeutralBalance
    THEN <<ScaleChannel(linear[1], white_balance[1], "r_gain"),
           linear[2],
           ScaleChannel(linear[3], white_balance[3], "b_gain")>>
    ELSE linear

\* lines 175-179 on a (blue, green, red) pixel; white_balance is (r, g, b)
WhiteBalanceStage(linear, white_balance) ==
    IF white_balance # NeutralBalance
    THEN <<ScaleChannel(linear[1], white_balance[3], "b_gain"),
           linear[2],
           ScaleChannel(linear[3], white_balance[1], "r_gain")>>
    ELSE linear

\* lines 193-194 on a lightness value l of the equalised L plane
ExposureStage(l, exposure) ==
    IF exposure # Fix(100)
    THEN ScaleChannel(l, exposure, "exposure")
    ELSE l

\* greatest common divisor of two naturals, not both zero
RECURSIVE Gcd(_, _)
Gcd(a, b) == IF b = 0 THEN a ELSE Gcd(b, a % b)

\* n / d for naturals: the quotient as a fraction in lowest terms, or the
\* ZeroDivisionError Python raises
Divide(n, d) ==
    IF d = 0 THEN [raised |-> "ZeroDivisionError", num |-> 0, den |-> 1]
    ELSE [raised |-> "none", num |-> n \div Gcd(n, d), den |-> d \div Gcd(n, d)]

\* AverageTime over one frame more than were processed
AverageTimeSkewed(total, count) == Divide(total, count + 1)

\* line 241: self.total_time / self.frame_count
AverageTime(total, count) == Divide(total, count)

\* MetricsParams that reports the defaults of the dataclass
MetricsParamsDefaults(self) ==
    [exposure   |-> HDRParameters.exposure,
     contrast   |-> HDRParameters.contrast,
     saturation |-> HDRParameters.saturation,
     sharpening |-> HDRParameters.sharpening]

\* the "params" entry of the metrics record, lines 242-247
MetricsParams(self) ==
    [exposure   |-> self.exposure,
     contrast   |-> self.contrast,
     saturation |-> self.saturation,
     sharpening |-> self.sharpening]

\* lines 239-248: the metrics record, built after the counters are updated
Metrics(self, process_time, total, count) ==
    [process_time_ms |-> process_time,
     avg_time_ms     |-> AverageTime(total, count),
     params          |-> MetricsParams(self)]

\* the exception a call ends with, or "none"; self holds the parameters
\* after the telemetry update
Raised(frame, telemetry, self) ==
    IF ~telemetry.none /\ InterpolateRaised(get_latest_values(telemetry)) # "none"
    THEN InterpolateRaised(get_latest_values(telemetry))
    ELSE FrameRaised(frame, self)

\* ToneCurveApplied where every curve name but "adaptive" selects the S-curve
ToneCurveAppliedDefault(self) ==
    IF self.tone_curve = "adaptive" THEN "histogram_cdf" ELSE "s_curve_lut"

\* lines 201-205: the table the tone-curve stage applies: the precomputed
\* S-curve table, the curve _apply_adaptive_tone_curve builds from the
\* frame's histogram, or none
ToneCurveApplied(self) ==
    IF self.tone_curve = "s_curve" THEN "s_curve_lut"
    ELSE IF self.tone_curve = "adaptive" THEN "histogram_cdf"
    ELSE "none"

\* CountersUpdated with the counters advanced on entry
CountersUpdatedOnEntry(frame, telemetry, self) == TRUE

\* lines 236-237 are reached: no statement before them raised
CountersUpdated(frame, telemetry, self) == Raised(frame, telemetry, self) = "none"

\* what a call leaves behind apart from the instance attributes: its
\* arguments, the exception it ended with, the stages it completed, the
\* followed pixel after gamma decode and after white balance, the lightness
\* before and after the exposure stage, the tone curve applied, and the
\* metrics it returned
CallRecord(frame, telemetry, clahe_l, process_time, self, tables, total, count) ==
    LET raised   == Raised(frame, telemetry, self)
        decoded  == ~telemetry.none
                    => InterpolateRaised(get_latest_values(telemetry)) = "none"
        linear   == GammaDecodeStage(frame.pixel, tables)
    IN  [telemetry |-> telemetry,
         frame     |-> frame,
         raised    |-> raised,
         stages    |-> IF raised = "none" THEN StagesRun(self)
                       ELSE IF decoded THEN StagesBeforeRaise ELSE << >>,
         linear    |-> IF decoded THEN linear ELSE << >>,
         balanced  |-> IF raised = "none"
                       THEN WhiteBalanceStage(linear, self.white_balance) ELSE << >>,
         clahe_l   |-> IF raised = "none" THEN <<clahe_l>> ELSE << >>,
         exposed   |-> IF raised = "none"
                       THEN <<ExposureStage(clahe_l, self.exposure)>> ELSE << >>,
         tone      |-> IF raised = "none" THEN ToneCurveApplied(self) ELSE "none",
         metrics   |-> IF raised = "none"
                       THEN Metrics(self, process_time, total, count) ELSE << >>]

\* HDRProcessor.process_frame(frame, telemetry) on instance p.  clahe_l is
\* the lightness OpenCV's Lab conversion and CLAHE give the followed pixel,
\* process_time the measured wall-clock duration of the call in ms.  The
\* parameters are updated first; the counters only when every stage has run.
process_frame(p, frame, telemetry, clahe_l, process_time) ==
    /\ calls[p] < MaxFrames
    /\ params' = [params EXCEPT ![p] = UpdatedParams(@, telemetry)]
    /\ LET ok == CountersUpdated(frame, telemetry, params'[p])
       IN  /\ frame_count' = [frame_count EXCEPT ![p] = IF ok THEN @ + 1 ELSE @]
           /\ total_time' = [total_time EXCEPT ![p] =
                                IF ok THEN @ + process_time ELSE @]
           /\ returned' = [returned EXCEPT ![p] =
                              IF ok THEN Append(@, process_time) ELSE @]
    /\ calls' = [calls EXCEPT ![p] = @ + 1]
    /\ last' = [last EXCEPT ![p] =
                  CallRecord(frame, telemetry, clahe_l, process_time, params'[p],
                             luts[p], total_time'[p], frame_count'[p])]
    /\ UNCHANGED <<preset, luts, mappings>>

\* avg_latency without the max(1, ...) in the denominator
avg_latency_unguarded(p) == Divide(total_time[p], frame_count[p])

\* the average latency the callers report (main.py line 82, demo_main.py
\* line 142): total_time / max(1, frame_count)
avg_latency(p) == Divide(total_time[p], Max(1, frame_count[p]))

(***************************************************************************)
(* Inputs.                                                                 *)
(***************************************************************************)
\* lux: below the table, every breakpoint, a quarter into the second segment,
\* halfway into the third, above the table
LuxReadings == {-1000, 0, 100, 200, 500, 750, 1000, 10000, 100000}

\* motion in hundredths: below 0.0, levels, the midpoints of adjacent levels
\* (0.15, 0.45, 0.8), a reading nearer to one level (0.5), above 1.0
MotionReadings == {-10, 0, 15, 30, 45, 50, 80, 100, 150}

\* kelvin: below the table, every breakpoint, halfway into the second segment,
\* three quarters into the third, above the table
KelvinReadings == {1000, 2000, 3000, 4000, 5000, 6500, 7000, 9000}

Some(S) == {{v} : v \in S}

\* frames with the three kinds
FullFrames ==
    {TelemetryFrame({750}, {45}, {4000}),
     TelemetryFrame({0}, {15}, {2000}),
     TelemetryFrame({100000}, {100}, {6500})}

\* the frames with one kind, and the frame with no reading
SingleFrames ==
    {TelemetryFrame(l, {}, {}) : l \in Some(LuxReadings)}
    \cup {TelemetryFrame({}, m, {}) : m \in Some(MotionReadings)}
    \cup {TelemetryFrame({}, {}, k) : k \in Some(KelvinReadings)}
    \cup {TelemetryFrame({}, {}, {})}

Frames == {NoTelemetry} \cup SingleFrames \cup FullFrames

\* the image frame of the calls that vary the telemetry: a full-HD BGR frame
\* whose first pixel is (64, 128, 255), and the lightness 128 for that pixel
SampleFrame == Frame(3, 1080, 1920, <<64, 128, 255>>)
SampleLightness == 128

(***************************************************************************)
(* The servers around the processor, as constructed.                       *)
(***************************************************************************)
\* the process_video tasks one run of the web demo can create: one for
\* each /start at most
Tasks == 1..MaxWebRequests

\* the collection tasks one run can create: one for each process_video
\* task at most
Collections == 1..MaxWebRequests

\* SystemTelemetryCollector.__init__ (system_telemetry.py lines 16-25), with
\* the collection tasks created so far: not running, _collection_task None
\* (0), no task created
SystemTelemetryCollector ==
    [is_running      |-> FALSE,
     collection_task |-> 0,
     tasks           |-> [c \in Collections |-> "none"]]

\* WebDemo.__init__ (web_demo.py lines 28-36): no processing, the collector
\* as constructed, no client listed, no process_video task created, no
\* capture opened, no request handled yet.  Of a task, pending tells that an
\* exception took it out of the loop, awaited the collection task it awaits
\* in the finally block, dropped that the client it is sending to has left
\* websocket_clients
WebDemo ==
    [is_processing |-> FALSE,
     collector     |-> SystemTelemetryCollector,
     client        |-> "none",
     task          |-> [t \in Tasks |-> "none"],
     capture       |-> [t \in Tasks |-> [state |-> "none", position |-> 0]],
     pending       |-> [t \in Tasks |-> FALSE],
     awaited       |-> [t \in Tasks |-> 0],
     dropped       |-> [t \in Tasks |-> FALSE],
     requests      |-> 0,
     last_request  |-> "none"]

\* the module-level dictionary of api_routes.py, lines 13-18.  current_source
\* is << >> for None and <<s>> for the string s
processing_state ==
    [is_processing    |-> FALSE,
     current_source   |-> << >>,
     frames_processed |-> 0,
     telemetry        |-> << >>]

\* the API router as imported: processing_state, and no request served yet
ApiRouter == [state |-> processing_state, log |-> << >>]

(***************************************************************************)
(* One processor instance.                                                 *)
(***************************************************************************)
Init ==
    /\ mappings = TELEMETRY_HDR_MAPPINGS
    /\ \E id \in PresetIds : Construct({1}, id)
    /\ web = WebDemo
    /\ api = ApiRouter

ProcessFrame ==
    \E p \in DOMAIN params, telemetry \in Frames, process_time \in Durations :
        /\ process_frame(p, SampleFrame, telemetry, SampleLightness, process_time)
        /\ UNCHANGED <<kept, web, api>>

Next == ProcessFrame

Spec == Init /\ [][Next]_vars

(***************************************************************************)
(* Two processor instances constructed with the same preset, each driven   *)
(* by its own sequence of process_frame calls.                             *)
(***************************************************************************)
\* snapshots as the callers build them, with a reading of each kind, and the
\* snapshot with no reading
PairFrames ==
    {TelemetryFrame({0}, {15}, {2000}),
     TelemetryFrame({750}, {45}, {4000}),
     TelemetryFrame({100000}, {100}, {6500}),
     TelemetryFrame({}, {}, {})}

InitPair ==
    /\ mappings = TELEMETRY_HDR_MAPPINGS
    /\ \E id \in PresetIds : Construct({1, 2}, id)
    /\ web = WebDemo
    /\ api = ApiRouter

ProcessFramePair ==
    \E p \in DOMAIN params, telemetry \in PairFrames :
        /\ process_frame(p, SampleFrame, telemetry, SampleLightness, 1)
        /\ UNCHANGED <<kept, web, api>>

NextPair == ProcessFramePair

SpecPair == InitPair /\ [][NextPair]_vars

(***************************************************************************)
(* The per-pixel stages: the first call of a processor, on a one-pixel     *)
(* frame of every grey level, with every lightness.                        *)
(***************************************************************************)
Levels == 0..255

\* snapshots that leave the gains as constructed, move the exposure (1.1,
\* 1.2, 1.4 and 1.35), and move the white balance: (1.05, 1, 0.925),
\* (1.1, 1, 0.85), (0.925, 1, 1.1125) and, at 5000 K, (1, 1, 1).  The
\* doubles of 1.4, of 1.35 and of 1.1125 are below these values, so that a
\* product which is exactly an integer is truncated to the integer below
StageFrames ==
    {NoTelemetry,
     TelemetryFrame({750}, {}, {4000}),
     TelemetryFrame({500}, {}, {3000}),
     TelemetryFrame({100}, {}, {6500}),
     TelemetryFrame({200}, {}, {}),
     TelemetryFrame({}, {}, {5000})}

InitStages == Init

ProcessFrameStages ==
    \E p \in DOMAIN params, v \in Levels, telemetry \in StageFrames :
        /\ calls[p] = 0
        /\ process_frame(p, Frame(3, 1, 1, <<v, v, v>>), telemetry, v, 1)
        /\ UNCHANGED <<kept, web, api>>

NextStages == ProcessFrameStages

SpecStages == InitStages /\ [][NextStages]_vars

(***************************************************************************)
(* Malformed inputs: frames of any shape, and mapping tables with a kind   *)
(* missing or without breakpoints.                                         *)
(***************************************************************************)
\* the mappings without the table of a kind
WithoutTable(M, kind) == [k \in DOMAIN M \ {kind} |-> M[k]]

\* the mappings with the table of a kind emptied
WithEmptyTable(M, kind) == [M EXCEPT ![kind] = << >>]

MappingVariants ==
    {TELEMETRY_HDR_MAPPINGS}
    \cup {WithoutTable(TELEMETRY_HDR_MAPPINGS, k) : k \in DOMAIN TELEMETRY_HDR_MAPPINGS}
    \cup {WithEmptyTable(TELEMETRY_HDR_MAPPINGS, k) : k \in DOMAIN TELEMETRY_HDR_MAPPINGS}

\* a BGR frame, a BGRA frame, a single-channel frame, and frames without
\* columns or without rows
Images ==
    {SampleFrame,
     Frame(4, 1080, 1920, <<64, 128, 255>>),
     Frame(1, 1080, 1920, <<64, 64, 64>>),
     Frame(3, 1080, 0, <<0, 0, 0>>),
     Frame(3, 0, 1920, <<0, 0, 0>>)}

FaultFrames ==
    {NoTelemetry,
     TelemetryFrame({750}, {45}, {4000}),
     TelemetryFrame({750}, {}, {}),
     TelemetryFrame({}, {45}, {}),
     TelemetryFrame({}, {}, {4000})}

InitFaults ==
    /\ mappings \in MappingVariants
    /\ Construct({1}, "balanced")
    /\ web = WebDemo
    /\ api = ApiRouter

ProcessFrameFaults ==
    \E p \in DOMAIN params, frame \in Images, telemetry \in FaultFrames :
        /\ process_frame(p, frame, telemetry, SampleLightness, 1)
        /\ UNCHANGED <<kept, web, api>>

NextFaults == ProcessFrameFaults

SpecFaults == InitFaults /\ [][NextFaults]_vars

(***************************************************************************)
(* A caller that keeps what every call returned.                           *)
(***************************************************************************)
\* no snapshot, the snapshot without readings, snapshots with the three
\* kinds, and a snapshot with a lux reading only
KeepFrames ==
    {NoTelemetry,
     TelemetryFrame({}, {}, {}),
     TelemetryFrame({750}, {45}, {4000}),
     TelemetryFrame({0}, {15}, {2000}),
     TelemetryFrame({100000}, {100}, {6500}),
     TelemetryFrame({200}, {}, {})}

\* a result the caller holds, after a later call left the parameters self:
\* the "params" entry of the metrics is a dictionary of its own built from
\* four floats (lines 242-247), so assigning new values to the attributes
\* of self.params does not reach it
Retained(result, self) == result

\* the results the caller holds after one more call: the earlier ones, and
\* the record of this call with the parameters the instance then has
Keep(held, call, self) ==
    [i \in 1..(Len(held) + 1) |->
        IF i <= Len(held) THEN Retained(held[i], self)
        ELSE [call |-> call, params |-> self]]

InitKeep == Init

ProcessFrameKeep ==
    \E p \in DOMAIN params, telemetry \in KeepFrames, process_time \in Durations :
        /\ process_frame(p, SampleFrame, telemetry, SampleLightness, process_time)
        /\ kept' = [kept EXCEPT ![p] = Keep(@, last'[p], params'[p])]
        /\ UNCHANGED <<web, api>>

NextKeep == ProcessFrameKeep

SpecKeep == InitKeep /\ [][NextKeep]_vars

(***************************************************************************)
(* The REST API of web/api/api_routes.py: its handlers as functions from   *)
(* processing_state to the response and the new processing_state, and a    *)
(* server that handles one request after the other.                        *)
(***************************************************************************)
\* the source field of a ProcessingRequest: any string
Sources == {"webcam", "demo.mp4", ""}

\* the status codes of the responses
OK == 200
BadRequest == 400

\* start_processing that accepts every request
start_processing_unguarded(state, source) ==
    [status |-> OK,
     state  |-> [state EXCEPT !.is_processing = TRUE,
                              !.current_source = <<source>>,
                              !.frames_processed = 0]]

\* POST /process/start, lines 40-59
start_processing(state, source) ==
    IF state.is_processing
    THEN [status |-> BadRequest, state |-> state]
    ELSE [status |-> OK,
          state  |-> [state EXCEPT !.is_processing = TRUE,
                                   !.current_source = <<source>>,
                                   !.frames_processed = 0]]

\* POST /process/stop, lines 62-74
stop_processing(state) ==
    IF ~state.is_processing
    THEN [status |-> BadRequest, state |-> state]
    ELSE [status |-> OK,
          state  |-> [state EXCEPT !.is_processing = FALSE,
                                   !.current_source = << >>]]

\* the server after a request: the state the handler left, and the request
\* logged with its response and the state before and after
Served(request, source, response) ==
    [state |-> response.state,
     log   |-> Append(api.log, [request |-> request,
                                source  |-> source,
                                status  |-> response.status,
                                before  |-> api.state,
                                after   |-> response.state])]

InitApi ==
    /\ mappings = TELEMETRY_HDR_MAPPINGS
    /\ Construct({1}, "balanced")
    /\ web = WebDemo
    /\ api = ApiRouter

PostProcessStart ==
    \E source \in Sources :
        /\ Len(api.log) < MaxRequests
        /\ api' = Served("start", <<source>>, start_processing(api.state, source))
        /\ UNCHANGED <<processor, kept, web>>

PostProcessStop ==
    /\ Len(api.log) < MaxRequests
    /\ api' = Served("stop", << >>, stop_processing(api.state))
    /\ UNCHANGED <<processor, kept, web>>

NextApi == PostProcessStart \/ PostProcessStop

SpecApi == InitApi /\ [][NextApi]_vars

(***************************************************************************)
(* The web demo (web_demo.py): the /start, /stop and /ws handlers, the     *)
(* process_video tasks and the collection task of the telemetry collector, *)
(* all run by one asyncio event loop.  A step of the model is what a       *)
(* coroutine does between two suspensions.  A handler runs whole.  A       *)
(* process_video task suspends at asyncio.sleep (line 212), at send_text   *)
(* (line 203) when a client is listed, and in telemetry_collector.stop()   *)
(* at the await of the cancelled collection task (line 216,                *)
(* system_telemetry.py line 40) unless that task has ended already.  The   *)
(* methods of telemetry/base.py (start, stop, get_current_telemetry) are   *)
(* taken not to suspend: start sets is_running, stop clears it.  A         *)
(* process_video task is                                                   *)
(*   "none"      not created,                                              *)
(*   "created"   scheduled by asyncio.create_task, not yet run,            *)
(*   "sleeping"  inside the loop, suspended at line 212,                   *)
(*   "sending"   inside the loop, suspended at line 203,                   *)
(*   "stopping"  in the finally block, awaiting the collection task,       *)
(*   "done"      returned,                                                 *)
(*   "failed"    ended with an exception.                                  *)
(* One browser may connect to /ws.  The calls of the shared processor are  *)
(* the process_frame of this module, so a run has MaxFrames passes.        *)
(***************************************************************************)
\* the snapshot get_current_telemetry hands the loop: none yet, or one with
\* the three kinds of the simulated sensors
WebFrames ==
    {NoTelemetry,
     TelemetryFrame({750}, {45}, {4000})}

\* the mapping tables of the process: as configured, or without the motion
\* table, which makes every call with a motion reading raise KeyError
WebMappings ==
    {TELEMETRY_HDR_MAPPINGS,
     WithoutTable(TELEMETRY_HDR_MAPPINGS, "motion_level")}

\* a task that has ended, or was never created
Ended(t) == web.task[t] \in {"none", "done", "failed"}

\* a task inside its frame loop
InLoop(t) == web.task[t] \in {"sleeping", "sending"}

InitWeb ==
    /\ mappings \in WebMappings
    /\ Construct({1}, "balanced")
    /\ web = WebDemo
    /\ api = ApiRouter

\* POST /start, lines 55-59: unless is_processing is set, a new task is
\* created; it does not run before the handler has returned
web_start_processing ==
    /\ web.requests < MaxWebRequests
    /\ IF web.is_processing
       THEN web' = [web EXCEPT !.requests = @ + 1, !.last_request = "start"]
       ELSE \E t \in Tasks :
               /\ Ended(t)
               /\ \A u \in Tasks : u < t => ~Ended(u)
               /\ web' = [web EXCEPT !.task[t] = "created",
                                     !.requests = @ + 1,
                                     !.last_request = "start"]
    /\ UNCHANGED <<processor, kept, api>>

\* POST /stop, lines 61-64
web_stop_processing ==
    /\ web.requests < MaxWebRequests
    /\ web' = [web EXCEPT !.is_processing = FALSE,
                          !.requests = @ + 1,
                          !.last_request = "stop"]
    /\ UNCHANGED <<processor, kept, api>>

\* the server state w with the browser's client taken off websocket_clients;
\* the tasks suspended in a send to it will not find it in the list
Unlisted(w, to) ==
    [w EXCEPT !.client = to,
              !.dropped = [t \in Tasks |-> @[t] \/ w.task[t] = "sending"]]

\* /ws, lines 43-53: the browser connects and its client is appended to
\* websocket_clients; or it disconnects and the handler removes the client,
\* which raises ValueError inside the handler when process_video has removed
\* it already
websocket_endpoint ==
    /\ \/ web.client = "none" /\ web' = [web EXCEPT !.client = "listed"]
       \/ web.client = "listed" /\ web' = Unlisted(web, "none")
       \/ web.client = "unlisted" /\ web' = [web EXCEPT !.client = "none"]
    /\ UNCHANGED <<processor, kept, api>>

\* SystemTelemetryCollector.start, system_telemetry.py lines 27-33
CollectorStarted(c) ==
    IF c.collection_task # 0 THEN [c EXCEPT !.is_running = TRUE]
    ELSE LET new == CHOOSE i \in Collections :
                        /\ c.tasks[i] = "none"
                        /\ \A j \in Collections : j < i => c.tasks[j] # "none"
         IN  [c EXCEPT !.is_running = TRUE,
                       !.collection_task = new,
                       !.tasks[new] = "alive"]

\* stop() suspends at line 40: a collection task is referenced and has not
\* ended
StopSuspends(c) ==
    c.collection_task # 0 /\ c.tasks[c.collection_task] # "finished"

\* lines 37-38 of stop(): the referenced collection task is cancelled
CollectorCancelled(c) == [c EXCEPT !.tasks[c.collection_task] = "cancelling"]

\* lines 43-45 of stop(): the reference is dropped and the base class
\* stopped
CollectorStopped(c) == [c EXCEPT !.collection_task = 0, !.is_running = FALSE]

\* lines 216-217 after the await of line 40: the collector is stopped and
\* is_processing cleared; the task returns, or ends with the exception that
\* took it out of the loop
Finished(t, w) ==
    [w EXCEPT !.collector = CollectorStopped(@),
              !.is_processing = FALSE,
              !.task[t] = IF w.pending[t] THEN "failed" ELSE "done"]

\* lines 214-217, the finally block of task t entered from the server state
\* w with or without an exception: the capture is released and the collector
\* stopped, which suspends the task while the collection task is ending
Finally(t, w, exception) ==
    LET left == [w EXCEPT !.capture[t].state = "released",
                          !.pending[t] = exception,
                          !.dropped[t] = FALSE]
    IN  IF StopSuspends(w.collector)
        THEN [left EXCEPT !.collector = CollectorCancelled(@),
                          !.awaited[t] = w.collector.collection_task,
                          !.task[t] = "stopping"]
        ELSE Finished(t, left)

\* lines 138-142: the position of the capture after the loop has read a
\* frame; at the end of the video the read fails, the capture is rewound
\* and, without a suspension, the first frame is read
Read(position) == IF position >= VideoFrames THEN 1 ELSE position + 1

\* lines 138-212, one pass of the loop of task t from the server state w:
\* a frame is read, the snapshot fetched and process_frame called on the
\* shared processor.  When it raises, the finally block is entered.
\* Otherwise the frame is sent to the listed client: send_text returns
\* without a suspension, or suspends the task, or raises without a
\* suspension, and then lines 204-209 take the client off
\* websocket_clients; and then the task sleeps
LoopPass(t, w, telemetry) ==
    /\ process_frame(1, SampleFrame, telemetry, SampleLightness, 1)
    /\ LET read == [w EXCEPT !.capture[t].position = Read(@)]
       IN  IF Raised(SampleFrame, telemetry,
                     UpdatedParams(params[1], telemetry)) # "none"
           THEN web' = Finally(t, read, TRUE)
           ELSE \/ web' = [read EXCEPT !.task[t] = "sleeping"]
                \/ /\ w.client = "listed"
                   /\ web' = [read EXCEPT !.task[t] = "sending"]
                \/ /\ w.client = "listed"
                   /\ web' = [Unlisted(read, "unlisted") EXCEPT
                                 !.task[t] = "sleeping"]

\* lines 124-137, the first step of the task: is_processing is set, the
\* collector started and the capture created.  A capture that reports no
\* frame rate makes line 134 divide by zero, outside the try block: the task
\* ends there.  A capture that is not open leaves the loop unentered
Begin(t) ==
    /\ web.task[t] = "created"
    /\ \E opened \in BOOLEAN, fps \in {0, 30} :
          LET started == [web EXCEPT !.is_processing = TRUE,
                                     !.collector = CollectorStarted(@),
                                     !.capture[t] =
                                         [state    |-> IF opened THEN "open"
                                                       ELSE "unopened",
                                          position |-> 0]]
          IN  IF fps = 0
              THEN /\ web' = [started EXCEPT !.task[t] = "failed"]
                   /\ UNCHANGED processor
              ELSE IF ~opened
              THEN /\ web' = Finally(t, started, FALSE)
                   /\ UNCHANGED processor
              ELSE \E telemetry \in WebFrames : LoopPass(t, started, telemetry)
    /\ UNCHANGED <<kept, api>>

\* line 137 after the sleep: the loop goes on while is_processing is set,
\* and is left for the finally block otherwise
Wake(t) ==
    /\ web.task[t] = "sleeping"
    /\ IF web.is_processing
       THEN \E telemetry \in WebFrames : LoopPass(t, web, telemetry)
       ELSE web' = Finally(t, web, FALSE) /\ UNCHANGED processor
    /\ UNCHANGED <<kept, api>>

\* lines 203-212 after the send: a send that raised puts the client on the
\* list of the disconnected, and line 209 removes it from websocket_clients,
\* which raises ValueError when it is no longer there; then the task sleeps
Sent(t) ==
    /\ web.task[t] = "sending"
    /\ \E raised \in BOOLEAN :
          web' = IF ~raised
                 THEN [web EXCEPT !.task[t] = "sleeping", !.dropped[t] = FALSE]
                 ELSE IF web.dropped[t]
                 THEN Finally(t, web, TRUE)
                 ELSE [Unlisted(web, "unlisted") EXCEPT !.task[t] = "sleeping",
                                                        !.dropped[t] = FALSE]
    /\ UNCHANGED <<processor, kept, api>>

\* lines 216-217: the collection task the finally block awaits has ended
Finish(t) ==
    /\ web.task[t] = "stopping"
    /\ web.collector.tasks[web.awaited[t]] = "finished"
    /\ web' = Finished(t, web)
    /\ UNCHANGED <<processor, kept, api>>

\* WebDemo.process_video, lines 122-217: the next step of task t
process_video(t) == Begin(t) \/ Wake(t) \/ Sent(t) \/ Finish(t)

\* SystemTelemetryCollector._collect_continuously, lines 47-57: collection
\* task c ends when it is cancelled (lines 53-54) or finds is_running
\* cleared (line 49)
collect_continuously(c) ==
    /\ \/ web.collector.tasks[c] = "cancelling"
       \/ web.collector.tasks[c] = "alive" /\ ~web.collector.is_running
    /\ web' = [web EXCEPT !.collector.tasks[c] = "finished"]
    /\ UNCHANGED <<processor, kept, api>>

NextWeb ==
    \/ web_start_processing
    \/ web_stop_processing
    \/ websocket_endpoint
    \/ \E t \in Tasks : process_video(t)
    \/ \E c \in Collections : collect_continuously(c)

SpecWeb == InitWeb /\ [][NextWeb]_vars

\* the event loop runs every task that is ready: a created task gets its
\* first step, a sleep and a send end, a cancelled collection task ends
SpecWebFair ==
    /\ SpecWeb
    /\ \A t \in Tasks : WF_vars(process_video(t))
    /\ \A c \in Collections : WF_vars(collect_continuously(c))

(***************************************************************************)
(* Properties.                                                             *)
(***************************************************************************)
Procs == DOMAIN params

\* the telemetry of the latest call on p
Tel(p) == last[p].telemetry

AmbientMap == TELEMETRY_HDR_MAPPINGS.ambient_light
MotionMap  == TELEMETRY_HDR_MAPPINGS.motion_level
TempMap    == TELEMETRY_HDR_MAPPINGS.color_temperature

Lowest(S)  == CHOOSE x \in S : \A y \in S : x <= y
Highest(S) == CHOOSE x \in S : \A y \in S : x >= y

\* b1 < b2 are neighbours in the set of breakpoints S
Adjacent(S, b1, b2) ==
    /\ b1 \in S /\ b2 \in S /\ b1 < b2
    /\ ~\E c \in S : b1 < c /\ c < b2

Abs(x) == IF x < 0 THEN -x ELSE x

\* p holds the exposure and contrast of ambient-light breakpoint b
HasAmbientEffect(p, b) ==
    /\ params[p].exposure = Fix(AmbientMap[b].exposure)
    /\ params[p].contrast = Fix(AmbientMap[b].contrast)

\* p holds the red and blue gains of colour-temperature breakpoint b
HasTempEffect(p, b) ==
    /\ params[p].white_balance[1] = Fix(TempMap[b].r_gain)
    /\ params[p].white_balance[3] = Fix(TempMap[b].b_gain)

\* C1 (as claimed): after a call whose ambient-light or colour-temperature
\* reading is at or beyond the smallest or the largest breakpoint of its
\* table, the table's fields equal the effect of that boundary breakpoint.
ClampCorrectness ==
    \A p \in Procs :
        calls[p] > 0 =>
            /\ \A v \in Tel(p).ambient_light :
                   /\ v <= Lowest(DOMAIN AmbientMap)
                          => HasAmbientEffect(p, Lowest(DOMAIN AmbientMap))
                   /\ v >= Highest(DOMAIN AmbientMap)
                          => HasAmbientEffect(p, Highest(DOMAIN AmbientMap))
            /\ \A v \in Tel(p).color_temperature :
                   /\ v <= Lowest(DOMAIN TempMap)
                          => HasTempEffect(p, Lowest(DOMAIN TempMap))
                   /\ v >= Highest(DOMAIN TempMap)
                          => HasTempEffect(p, Highest(DOMAIN TempMap))

\* C2 (as claimed): after a call whose ambient-light or colour-temperature
\* reading equals a breakpoint of its table, the first and the last included,
\* the table's fields equal that breakpoint's effect.
AnchorIdentity ==
    \A p \in Procs :
        calls[p] > 0 =>
            /\ \A v \in Tel(p).ambient_light :
                   v \in DOMAIN AmbientMap => HasAmbientEffect(p, v)
            /\ \A v \in Tel(p).color_temperature :
                   v \in DOMAIN TempMap => HasTempEffect(p, v)

\* the value on the line through (b1, f1) and (b2, f2) at v, f1 and f2 in
\* hundredths, in point-slope form
OnLine(b1, f1, b2, f2, v) ==
    Fix(f1) + ((Fix(f2) - Fix(f1)) \div (b2 - b1)) * (v - b1)

\* C3: after a call with a reading v strictly between adjacent breakpoints
\* b1 < v < b2, each field of the table lies on the line through the two
\* effects, so a reading halfway gives their mean; ambient light 750 gives
\* exposure 1.1.
LinearInterpolation ==
    \A p \in Procs :
        calls[p] > 0 =>
            /\ \A v \in Tel(p).ambient_light :
                 \A b1, b2 \in DOMAIN AmbientMap :
                   Adjacent(DOMAIN AmbientMap, b1, b2) /\ b1 < v /\ v < b2 =>
                     /\ params[p].exposure =
                            OnLine(b1, AmbientMap[b1].exposure,
                                   b2, AmbientMap[b2].exposure, v)
                     /\ params[p].contrast =
                            OnLine(b1, AmbientMap[b1].contrast,
                                   b2, AmbientMap[b2].contrast, v)
                     /\ (2 * v = b1 + b2 =>
                            2 * params[p].exposure =
                                Fix(AmbientMap[b1].exposure) + Fix(AmbientMap[b2].exposure))
                     /\ (v = 750 => params[p].exposure = Fix(110))
            /\ \A v \in Tel(p).color_temperature :
                 \A b1, b2 \in DOMAIN TempMap :
                   Adjacent(DOMAIN TempMap, b1, b2) /\ b1 < v /\ v < b2 =>
                     /\ params[p].white_balance[1] =
                            OnLine(b1, TempMap[b1].r_gain, b2, TempMap[b2].r_gain, v)
                     /\ params[p].white_balance[3] =
                            OnLine(b1, TempMap[b1].b_gain, b2, TempMap[b2].b_gain, v)

\* C3 witness: ambient light 750, halfway between 500 and 1000, was processed
\* and the exposure is 1.1
LinearInterpolationWitness ==
    \E p \in Procs :
        /\ calls[p] > 0
        /\ Tel(p).ambient_light = {750}
        /\ params[p].exposure = Fix(110)
        /\ params[p].contrast # Fix(100)

\* C4: after a call with a motion reading, the sharpening is the sharpening
\* of a motion level at minimum absolute distance from the reading, hence a
\* value of the motion table and not a blend.
MotionNearestNeighbour ==
    \A p \in Procs :
        calls[p] > 0 =>
            \A m \in Tel(p).motion :
                \E l \in DOMAIN MotionMap :
                    /\ params[p].sharpening = Fix(MotionMap[l].sharpening)
                    /\ \A k \in DOMAIN MotionMap : Abs(l - m) <= Abs(k - m)

\* C4 witness: a motion reading of 0.5, between the levels 0.3 and 0.6 and
\* nearer to 0.6, was processed and the sharpening is that of 0.6
MotionNearestNeighbourWitness ==
    \E p \in Procs :
        /\ calls[p] > 0
        /\ Tel(p).motion = {50}
        /\ params[p].sharpening = Fix(40)

\* C5 (as claimed): after a call with a motion reading equidistant from two
\* adjacent levels, the sharpening is that of the higher level.
MotionTieHigher ==
    \A p \in Procs :
        calls[p] > 0 =>
            \A m \in Tel(p).motion :
                \A l1, l2 \in DOMAIN MotionMap :
                    Adjacent(DOMAIN MotionMap, l1, l2) /\ m - l1 = l2 - m
                        => params[p].sharpening = Fix(MotionMap[l2].sharpening)

\* a frame with at least one reading
NonEmpty(t) ==
    ~t.none /\ (t.ambient_light # {} \/ t.motion # {} \/ t.color_temperature # {})

\* C6 (as claimed): two processors constructed with the same preset whose
\* latest call processed the same non-empty snapshot hold identical
\* parameters, whatever calls came before.
HistoryIndependence ==
    \A p, q \in Procs :
        /\ calls[p] > 0 /\ calls[q] > 0
        /\ preset[p] = preset[q]
        /\ Tel(p) = Tel(q) /\ NonEmpty(Tel(p))
        => params[p] = params[q]

\* the value a preset gives a field, or the default when the preset is unknown
PresetValue(id, field, default) ==
    IF id \in DOMAIN HDR_PRESETS THEN HDR_PRESETS[id][field] ELSE default

\* the denoise strength a preset gives: its own when it enables denoising,
\* the default otherwise
PresetDenoise(id) ==
    IF id \in DOMAIN HDR_PRESETS /\ HDR_PRESETS[id].denoise
    THEN HDR_PRESETS[id].denoise_strength ELSE 5

\* C7: a call changes exposure and contrast only if the snapshot has an
\* ambient-light reading, sharpening only if it has a motion reading, the
\* white balance only if it has a colour-temperature reading, and never the
\* other fields, which in every state hold the values set at construction.
TelemetryTouchesOnlyItsFields ==
    /\ [](\A p \in Procs :
            /\ params[p].saturation = Fix(PresetValue(preset[p], "saturation_boost", 110))
            /\ params[p].clahe_clip = Fix(PresetValue(preset[p], "clahe_clip", 300))
            /\ params[p].clahe_grid = PresetValue(preset[p], "clahe_grid", <<8, 8>>)
            /\ params[p].tone_curve = PresetValue(preset[p], "tone_curve", "s_curve")
            /\ params[p].denoise_strength = PresetDenoise(preset[p])
            /\ params[p].highlights = 0
            /\ params[p].shadows = 0)
    /\ [][\A p \in Procs :
            calls'[p] # calls[p] =>
                /\ (last'[p].telemetry.ambient_light = {} =>
                        /\ params'[p].exposure = params[p].exposure
                        /\ params'[p].contrast = params[p].contrast)
                /\ (last'[p].telemetry.motion = {} =>
                        params'[p].sharpening = params[p].sharpening)
                /\ (last'[p].telemetry.color_temperature = {} =>
                        params'[p].white_balance = params[p].white_balance)]_vars

\* C7 witness: a snapshot with the three kinds was processed; exposure,
\* sharpening and white balance moved and saturation is the preset's
TelemetryTouchesOnlyItsFieldsWitness ==
    \E p \in Procs :
        /\ calls[p] > 0
        /\ preset[p] = "quality"
        /\ Tel(p) = TelemetryFrame({750}, {45}, {4000})
        /\ params[p].exposure = Fix(110)
        /\ params[p].sharpening = Fix(40)
        /\ params[p].white_balance # <<Fix(100), Fix(100), Fix(100)>>
        /\ params[p].saturation = Fix(115)

\* C8: a call whose snapshot is absent or has no reading leaves the
\* parameters as they were, runs the stages from gamma decode to gamma
\* encode, and adds one frame and the call's duration to the counters.
EmptySnapshotKeepsParams ==
    [][\A p \in Procs :
          calls'[p] # calls[p] /\ ~NonEmpty(last'[p].telemetry) =>
              /\ params'[p] = params[p]
              /\ frame_count'[p] = frame_count[p] + 1
              /\ total_time'[p] = total_time[p] + last'[p].metrics.process_time_ms
              /\ Head(last'[p].stages) = "gamma_decode"
              /\ \E i \in 1..Len(last'[p].stages) :
                     /\ last'[p].stages[i] = "gamma_encode"
                     /\ i + 1 = Len(last'[p].stages)]_vars

\* C8 witness: a call without telemetry followed a call whose telemetry moved
\* the exposure, and the exposure is still the moved one
EmptySnapshotKeepsParamsWitness ==
    \E p \in Procs :
        /\ calls[p] = 2
        /\ frame_count[p] = 2
        /\ Tel(p).none
        /\ params[p].exposure = Fix(110)

\* C9: in every state exposure, contrast, saturation and the three
\* white-balance gains are in [0, 3] and sharpening is in [0, 1].
ParameterRange ==
    \A p \in Procs :
        /\ \A g \in {params[p].exposure, params[p].contrast, params[p].saturation,
                     params[p].white_balance[1], params[p].white_balance[2],
                     params[p].white_balance[3]} :
               0 <= g /\ g <= Fix(300)
        /\ 0 <= params[p].sharpening /\ params[p].sharpening <= Fix(100)

\* C9 witness: a huge ambient-light reading was processed after a reading
\* that moved the exposure
ParameterRangeWitness ==
    \E p \in Procs :
        /\ calls[p] = 2
        /\ Tel(p).ambient_light = {100000}
        /\ params[p].exposure = Fix(110)

\* C10: in every state the green white-balance gain is 1.0.
GreenGainFixed ==
    \A p \in Procs : params[p].white_balance[2] = Fix(100)

\* C10 witness: a colour-temperature reading of 4000 K was processed and set
\* the red and blue gains
GreenGainFixedWitness ==
    \E p \in Procs :
        /\ calls[p] > 0
        /\ Tel(p).color_temperature = {4000}
        /\ params[p].white_balance[1] = Fix(105)
        /\ params[p].white_balance[3] # Fix(100)

RECURSIVE Sum(_)
Sum(seq) == IF seq = << >> THEN 0 ELSE Head(seq) + Sum(Tail(seq))

\* C11: after N >= 1 calls that returned, frame_count is N, total_time is the
\* sum of the N durations returned as process_time_ms, and the avg_time_ms
\* the N-th call returned is that sum divided by N; a call that returns adds
\* exactly 1 to frame_count.
MetricsAccumulation ==
    /\ [](\A p \in Procs :
            /\ frame_count[p] = Len(returned[p])
            /\ total_time[p] = Sum(returned[p])
            /\ (Len(returned[p]) >= 1 /\ last[p].raised = "none" =>
                   /\ last[p].metrics.process_time_ms
                          = returned[p][Len(returned[p])]
                   /\ last[p].metrics.avg_time_ms.raised = "none"
                   /\ last[p].metrics.avg_time_ms.num * Len(returned[p])
                          = last[p].metrics.avg_time_ms.den * Sum(returned[p])))
    /\ [][\A p \in Procs :
            returned'[p] # returned[p] => frame_count'[p] = frame_count[p] + 1]_vars

\* C11 witness: two calls returned, of 1 ms and 2 ms, and the second one
\* reported an average of 3/2 ms
MetricsAccumulationWitness ==
    \E p \in Procs :
        /\ frame_count[p] = 2
        /\ returned[p] = <<1, 2>>
        /\ total_time[p] = 3
        /\ last[p].metrics.avg_time_ms = [raised |-> "none", num |-> 3, den |-> 2]

\* C12: no average-latency readout divides by zero, and on a processor that
\* has processed no frame the average the callers compute is 0; the average
\* process_frame itself returns is computed after frame_count was incremented.
AverageDefinedAtZero ==
    \A p \in Procs :
        /\ avg_latency(p).raised = "none"
        /\ (frame_count[p] = 0 => avg_latency(p).num = 0)
        /\ (calls[p] > 0 /\ last[p].raised = "none" =>
                /\ frame_count[p] >= 1
                /\ last[p].metrics.avg_time_ms.raised = "none")

\* C12 witness: a processor whose only call failed still counts no frame,
\* and the callers' readout gives 0
AverageDefinedAtZeroWitness ==
    \E p \in Procs :
        /\ calls[p] = 1
        /\ last[p].raised # "none"
        /\ frame_count[p] = 0
        /\ avg_latency(p) = [raised |-> "none", num |-> 0, den |-> 1]

\* C13 (as claimed, any exception counting as the InvalidFrameFormat
\* condition): a call on a frame whose channel count is not 3, or that has
\* no rows or no columns, ends with an exception and returns no frame.
InvalidFrameRejected ==
    \A p \in Procs :
        calls[p] > 0 /\ ~ValidFrame(last[p].frame) => last[p].raised # "none"

\* some telemetry kind of the snapshot t has no table, or a table without
\* breakpoints, in the mappings
Degraded(t) ==
    \/ t.ambient_light # {}
         /\ ("ambient_light" \in DOMAIN mappings => DOMAIN mappings.ambient_light = {})
    \/ t.motion # {}
         /\ ("motion_level" \in DOMAIN mappings => DOMAIN mappings.motion_level = {})
    \/ t.color_temperature # {}
         /\ ("color_temperature" \in DOMAIN mappings
                => DOMAIN mappings.color_temperature = {})

\* C14 (as claimed): a call on a well-formed frame whose snapshot has a kind
\* with a missing or empty mapping table completes without an exception.
GracefulDegradation ==
    \A p \in Procs :
        calls[p] > 0 /\ ValidFrame(last[p].frame) /\ Degraded(Tel(p))
            => last[p].raised = "none"

\* C15: a processor constructed with an identifier that is not in the preset
\* table holds the hard-coded default of every parameter; one constructed
\* with a known identifier holds that preset's clahe clip and grid,
\* saturation, sharpening and tone curve.
PresetConstruction ==
    \A p \in Procs :
        calls[p] = 0 =>
            /\ preset[p] \notin {"performance", "balanced", "quality"} =>
                   params[p] = [exposure         |-> Fix(100),
                                contrast         |-> Fix(100),
                                saturation       |-> Fix(110),
                                clahe_clip       |-> Fix(300),
                                clahe_grid       |-> <<8, 8>>,
                                sharpening       |-> Fix(60),
                                highlights       |-> 0,
                                shadows          |-> 0,
                                white_balance    |-> <<Fix(100), Fix(100), Fix(100)>>,
                                tone_curve       |-> "s_curve",
                                denoise_strength |-> 5]
            /\ preset[p] \in {"performance", "balanced", "quality"} =>
                   /\ params[p].clahe_clip = Fix(HDR_PRESETS[preset[p]].clahe_clip)
                   /\ params[p].clahe_grid = HDR_PRESETS[preset[p]].clahe_grid
                   /\ params[p].saturation = Fix(HDR_PRESETS[preset[p]].saturation_boost)
                   /\ params[p].sharpening = Fix(HDR_PRESETS[preset[p]].sharpening)
                   /\ params[p].tone_curve = HDR_PRESETS[preset[p]].tone_curve

\* C15 witness: a processor was constructed with the identifier "cinematic",
\* which no table has, and holds the default saturation and tone curve
PresetConstructionWitness ==
    \E p \in Procs :
        /\ calls[p] = 0
        /\ preset[p] = "cinematic"
        /\ params[p].saturation = Fix(110)
        /\ params[p].tone_curve = "s_curve"

\* out is value * gain limited to [0, 255] and truncated to an integer,
\* where the product is the double the stage computes: the integer below
\* the exact product when the double falls short of it
Clamped(value, gain, field, out) ==
    LET limited == Min(255 * Fix(100), Max(0, value * gain))
        whole   == IF value * gain <= 255 * Fix(100)
                      /\ FallsShort(value, gain, field)
                   THEN out + 1 ELSE out
    IN  /\ out \in 0..255
        /\ whole * Fix(100) <= limited
        /\ limited < (whole + 1) * Fix(100)
        /\ (value * gain > 255 * Fix(100) => out = 255)

\* the call recorded for p ran the stage called name
Ran(p, name) == \E i \in 1..Len(last[p].stages) : last[p].stages[i] = name

\* C16: for every 8-bit value and every gain a call can hold, the white
\* balance and the exposure stage give the product, as the double the stage
\* computes, limited to [0, 255] and truncated to an integer, so a product
\* above 255 gives 255 and never its residue modulo 256; the highlight/shadow stage, whose two strengths are 0,
\* is never entered.
NoWraparound ==
    \A p \in Procs :
        calls[p] > 0 /\ last[p].raised = "none" =>
            /\ \A c \in 1..3 : last[p].balanced[c] \in 0..255
            /\ last[p].exposed[1] \in 0..255
            /\ (Ran(p, "white_balance") =>
                   /\ Clamped(last[p].linear[1], params[p].white_balance[3],
                              "b_gain", last[p].balanced[1])
                   /\ Clamped(last[p].linear[3], params[p].white_balance[1],
                              "r_gain", last[p].balanced[3]))
            /\ (Ran(p, "exposure") =>
                   Clamped(last[p].clahe_l[1], params[p].exposure,
                           "exposure", last[p].exposed[1]))
            /\ ~Ran(p, "highlight_shadow")

\* C16 witness: a white pixel was processed with red gain 1.05, blue gain
\* 0.925 and exposure 1.1; red and lightness, whose products exceed 255,
\* are 255
NoWraparoundWitness ==
    \E p \in Procs :
        /\ calls[p] > 0
        /\ params[p].white_balance = <<Fix(105), Fix(100), 1665000>>
        /\ params[p].exposure = Fix(110)
        /\ last[p].linear = <<255, 255, 255>>
        /\ last[p].balanced = <<235, 255, 255>>
        /\ last[p].clahe_l = <<255>>
        /\ last[p].exposed = <<255>>

\* the stages of process_frame in the order of the source
StageOrder ==
    <<"gamma_decode", "white_balance", "clahe", "exposure", "recompose",
      "tone_curve", "saturation", "detail", "highlight_shadow", "denoise",
      "gamma_encode", "metrics">>

Position(name) == CHOOSE i \in 1..Len(StageOrder) : StageOrder[i] = name

\* C17: the stages of a call that returned are stages of the fixed order,
\* executed in that order, starting with gamma decode and ending with gamma
\* encode followed by the metrics update; the white balance and the exposure
\* stage ran exactly when the parameters as updated by this call's telemetry
\* ask for them.
StageOrdering ==
    \A p \in Procs :
        calls[p] > 0 /\ last[p].raised = "none" =>
            LET st == last[p].stages
            IN  /\ \A i \in 1..Len(st) : \E j \in 1..Len(StageOrder) : StageOrder[j] = st[i]
                /\ \A i \in 1..(Len(st) - 1) : Position(st[i]) < Position(st[i + 1])
                /\ st[1] = "gamma_decode"
                /\ st[Len(st) - 1] = "gamma_encode"
                /\ st[Len(st)] = "metrics"
                /\ (Ran(p, "white_balance")
                       <=> params[p].white_balance # <<Fix(100), Fix(100), Fix(100)>>)
                /\ (Ran(p, "exposure") <=> params[p].exposure # Fix(100))

\* C17 witness: a call whose telemetry switched on the white balance and the
\* exposure stage ran eleven stages, the white balance second and the
\* exposure fourth
StageOrderingWitness ==
    \E p \in Procs :
        /\ calls[p] = 1
        /\ Tel(p) = TelemetryFrame({750}, {45}, {4000})
        /\ Len(last[p].stages) = 11
        /\ last[p].stages[2] = "white_balance"
        /\ last[p].stages[4] = "exposure"

\* C18: the white-balance stage is skipped exactly when the gain triple is
\* (1, 1, 1), and then the pixel is passed on as it is; otherwise red is
\* multiplied by the red gain and blue by the blue gain in double
\* arithmetic, each limited to [0, 255] and truncated, and green is passed
\* on unchanged.
WhiteBalanceEffect ==
    \A p \in Procs :
        calls[p] > 0 /\ last[p].raised = "none" =>
            LET wb  == params[p].white_balance
                lin == last[p].linear
                bal == last[p].balanced
            IN  /\ (Ran(p, "white_balance") <=> wb # <<Fix(100), Fix(100), Fix(100)>>)
                /\ (~Ran(p, "white_balance") => bal = lin)
                /\ (Ran(p, "white_balance") =>
                       /\ Clamped(lin[3], wb[1], "r_gain", bal[3])
                       /\ Clamped(lin[1], wb[3], "b_gain", bal[1])
                       /\ bal[2] = lin[2])

\* C18 witness: a grey pixel of linear value 100 was balanced with red gain
\* 1.05 and blue gain 0.925 into blue 92, green 100, red 105
WhiteBalanceEffectWitness ==
    \E p \in Procs :
        /\ calls[p] > 0
        /\ params[p].white_balance[1] = Fix(105)
        /\ last[p].linear = <<100, 100, 100>>
        /\ last[p].balanced = <<92, 100, 105>>

\* C19: in every state the four tables of a processor are the ones built at
\* its construction, and no step changes a table.
LutsBuiltOnce ==
    /\ [](\A p \in Procs :
            /\ luts[p].gamma_decode = GammaDecodeValues
            /\ luts[p].gamma_encode = GammaEncodeValues
            /\ luts[p].s_curve_lut = SCurveValues
            /\ Len(luts[p].highlight_lut) = 256
            /\ luts[p].highlight_lut[1] = 0
            /\ luts[p].highlight_lut[179] = 178
            /\ luts[p].highlight_lut[256] = 237)
    /\ [][luts' = luts]_vars

\* C19 witness: two calls were made, the latest with telemetry, and the
\* tables still hold their construction values
LutsBuiltOnceWitness ==
    \E p \in Procs :
        /\ calls[p] = 2
        /\ NonEmpty(Tel(p))
        /\ luts[p].gamma_decode[129] = 55
        /\ luts[p].gamma_encode[129] = 186
        /\ luts[p].s_curve_lut[129] = 128
        /\ luts[p].highlight_lut[256] = 237

\* C20: the highlight table never decreases: entry i is at most entry i + 1,
\* for every i from 0 to 254.
HighlightMonotone ==
    \A p \in Procs :
        \A i \in 0..254 :
            luts[p].highlight_lut[i + 1] <= luts[p].highlight_lut[i + 2]

\* C20 witness: a table with the flat step at inputs 32 and 33, the knee at
\* 178 and the compressed top 237
HighlightMonotoneWitness ==
    \E p \in Procs :
        /\ luts[p].highlight_lut[33] = 32
        /\ luts[p].highlight_lut[34] = 32
        /\ luts[p].highlight_lut[179] = 178
        /\ luts[p].highlight_lut[180] = 178
        /\ luts[p].highlight_lut[256] = 237

\* C21 (as claimed): the value 128 looked up in the gamma-decode table and
\* the result looked up in the gamma-encode table comes back within 1 of 128.
GammaRoundTrip ==
    \A p \in Procs :
        LUT(LUT(128, luts[p].gamma_decode), luts[p].gamma_encode) \in {127, 128, 129}

\* the preset of p switches denoising off
DenoiseDisabled(p) ==
    preset[p] \in DOMAIN HDR_PRESETS /\ ~HDR_PRESETS[preset[p]].denoise

\* C25 (as claimed): a processor whose preset switches denoising off holds
\* denoise_strength 0 and none of its calls runs the denoise stage.
DenoiseOffByPreset ==
    \A p \in Procs :
        DenoiseDisabled(p) =>
            /\ params[p].denoise_strength = 0
            /\ (calls[p] > 0 => ~Ran(p, "denoise"))

\* C26: a call that returned applied the precomputed S-curve table exactly
\* when tone_curve is s_curve, the histogram curve exactly when it is
\* adaptive, and no curve (the stage is skipped) when it is linear; in every
\* state tone_curve is the one the preset chose at construction.
ToneCurveDispatch ==
    \A p \in Procs :
        /\ params[p].tone_curve = PresetValue(preset[p], "tone_curve", "s_curve")
        /\ (calls[p] > 0 /\ last[p].raised = "none" =>
               /\ (last[p].tone = "s_curve_lut" <=> params[p].tone_curve = "s_curve")
               /\ (last[p].tone = "histogram_cdf" <=> params[p].tone_curve = "adaptive")
               /\ (params[p].tone_curve = "linear" =>
                      last[p].tone = "none" /\ ~Ran(p, "tone_curve"))
               /\ (Ran(p, "tone_curve") <=> last[p].tone # "none"))

\* C26 witness: a processor with the performance preset, whose curve is
\* linear, made two calls and the latest skipped the tone-curve stage
ToneCurveDispatchWitness ==
    \E p \in Procs :
        /\ calls[p] = 2
        /\ preset[p] = "performance"
        /\ params[p].tone_curve = "linear"
        /\ last[p].tone = "none"
        /\ ~Ran(p, "tone_curve")
        /\ Ran(p, "saturation")

\* C27: in every state highlights and shadows are 0, and no call runs the
\* highlight/shadow stage.
HighlightsShadowsZero ==
    \A p \in Procs :
        /\ params[p].highlights = 0
        /\ params[p].shadows = 0
        /\ \A i \in 1..Len(last[p].stages) : last[p].stages[i] # "highlight_shadow"

\* C27 witness: two calls were made, the latest with a snapshot of the three
\* kinds that moved exposure, sharpening and white balance, and it ran the
\* detail stage followed directly by the denoise stage
HighlightsShadowsZeroWitness ==
    \E p \in Procs :
        /\ calls[p] = 2
        /\ Tel(p) = TelemetryFrame({750}, {45}, {4000})
        /\ params[p].highlights = 0 /\ params[p].shadows = 0
        /\ \E i \in 1..(Len(last[p].stages) - 1) :
               last[p].stages[i] = "detail" /\ last[p].stages[i + 1] = "denoise"

\* C28: a call that ends with an exception leaves frame_count and
\* total_time as they were before the call.
FailureKeepsCounters ==
    [][\A p \in Procs :
          calls'[p] # calls[p] /\ last'[p].raised # "none" =>
              /\ frame_count'[p] = frame_count[p]
              /\ total_time'[p] = total_time[p]]_vars

\* C28 witness: after one call that returned, a call on a frame without
\* columns failed in the Lab conversion; the counters still show one frame
\* while the exposure is the one computed from the failed call's telemetry
FailureKeepsCountersWitness ==
    \E p \in Procs :
        /\ calls[p] = 2
        /\ frame_count[p] = 1
        /\ total_time[p] = 1
        /\ last[p].raised = "cv2.error"
        /\ last[p].frame.width = 0
        /\ Tel(p).ambient_light = {750}
        /\ params[p].exposure = Fix(110)

\* the parameters of p before its i-th kept call
Before(p, i) ==
    IF i = 1 THEN update_from_preset(HDRParameters, preset[p])
    ELSE kept[p][i - 1].params

\* C22: when two consecutive calls of a processor are given the same
\* snapshot, the parameters after the second call equal the parameters
\* after the first; and from the parameters of any state, updating twice
\* with a snapshot gives what updating once gives.
ParameterIdempotence ==
    \A p \in Procs :
        /\ \A i \in 1..(Len(kept[p]) - 1) :
               kept[p][i + 1].call.telemetry = kept[p][i].call.telemetry =>
                   kept[p][i + 1].params = kept[p][i].params
        /\ \A s \in KeepFrames :
               UpdatedParams(UpdatedParams(params[p], s), s)
                   = UpdatedParams(params[p], s)

\* C22 witness: two consecutive calls with the snapshot (750 lux, motion
\* 0.45, 4000 K); the first moved the exposure from 1.0 to 1.1 and the white
\* balance from neutral, and the second left the same parameters
ParameterIdempotenceWitness ==
    \E p \in Procs :
        /\ Len(kept[p]) = 2
        /\ kept[p][1].call.telemetry = TelemetryFrame({750}, {45}, {4000})
        /\ kept[p][2].call.telemetry = TelemetryFrame({750}, {45}, {4000})
        /\ Before(p, 1).exposure = Fix(100)
        /\ kept[p][1].params.exposure = Fix(110)
        /\ kept[p][1].params.white_balance # NeutralBalance
        /\ kept[p][2].params = kept[p][1].params
        /\ params[p] = kept[p][2].params

\* the i-th kept result of p reports the parameters its stages ran with
ReportsParamsUsed(p, i) ==
    LET call    == kept[p][i].call
        used    == kept[p][i].params
        reports == call.metrics.params
    IN  /\ used = UpdatedParams(Before(p, i), call.telemetry)
        /\ reports.exposure = used.exposure
        /\ reports.contrast = used.contrast
        /\ reports.saturation = used.saturation
        /\ reports.sharpening = used.sharpening
        /\ call.stages = StagesRun(used)
        /\ call.exposed = <<ExposureStage(call.clahe_l[1], reports.exposure)>>
        /\ (reports.exposure # Fix(100)
               <=> \E k \in 1..Len(call.stages) : call.stages[k] = "exposure")
        /\ (reports.saturation # Fix(100)
               <=> \E k \in 1..Len(call.stages) : call.stages[k] = "saturation")
        /\ (reports.sharpening > 0
               <=> \E k \in 1..Len(call.stages) : call.stages[k] = "detail")

\* C23: the metrics a call returns report, for exposure, contrast,
\* saturation and sharpening, the values after that call's telemetry update,
\* which are the values its stages ran with; and a result the caller holds
\* is not changed by a later call.
MetricsReportParamsUsed ==
    /\ [](\A p \in Procs : \A i \in 1..Len(kept[p]) :
              kept[p][i].call.raised = "none" => ReportsParamsUsed(p, i))
    /\ [][\A p \in Procs : \A i \in 1..Len(kept[p]) :
              kept'[p][i] = kept[p][i]]_vars

\* C23 witness: the caller holds two results; the first call ran with
\* exposure 1.1 and reported it, the second with exposure 1.35 and reported
\* that, and the first result still reports 1.1
MetricsReportParamsUsedWitness ==
    \E p \in Procs :
        /\ Len(kept[p]) = 2
        /\ kept[p][1].call.telemetry = TelemetryFrame({750}, {45}, {4000})
        /\ kept[p][2].call.telemetry = TelemetryFrame({200}, {}, {})
        /\ kept[p][1].call.metrics.params.exposure = Fix(110)
        /\ kept[p][2].call.metrics.params.exposure # Fix(110)
        /\ kept[p][2].call.metrics.params.exposure = params[p].exposure
        /\ kept[p][2].call.metrics.params.sharpening
               = kept[p][1].call.metrics.params.sharpening

\* the requests the API accepted, in the order served
Accepted == SelectSeq(api.log, LAMBDA e : e.status = OK)

\* C29: a start while is_processing is true is rejected with an error and
\* leaves processing_state as it was, and so is a stop while is_processing
\* is false; the accepted requests alternate, start first; is_processing is
\* true exactly when current_source is set; an accepted start leaves
\* frames_processed 0.
StartStopProtocol ==
    /\ \A i \in 1..Len(api.log) :
          LET e == api.log[i]
          IN  /\ e.before = IF i = 1 THEN processing_state ELSE api.log[i - 1].after
              /\ (e.request = "start" /\ e.before.is_processing =>
                     e.status = BadRequest /\ e.after = e.before)
              /\ (e.request = "stop" /\ ~e.before.is_processing =>
                     e.status = BadRequest /\ e.after = e.before)
              /\ (e.request = "start" /\ e.status = OK =>
                     /\ ~e.before.is_processing
                     /\ e.after.is_processing
                     /\ e.after.current_source = e.source
                     /\ e.after.frames_processed = 0)
              /\ (e.request = "stop" /\ e.status = OK =>
                     /\ e.before.is_processing
                     /\ ~e.after.is_processing
                     /\ e.after.current_source = << >>)
              /\ (e.after.is_processing <=> e.after.current_source # << >>)
    /\ \A i \in 1..Len(Accepted) :
          Accepted[i].request = IF i % 2 = 1 THEN "start" ELSE "stop"
    /\ api.state = IF api.log = << >> THEN processing_state
                   ELSE api.log[Len(api.log)].after
    /\ (api.state.is_processing <=> api.state.current_source # << >>)

\* C29 witness: four requests were served: a start from the webcam was
\* accepted, a start from a file rejected with the webcam still the source,
\* a stop accepted, and a second stop rejected
StartStopProtocolWitness ==
    /\ Len(api.log) = 4
    /\ api.log[1].request = "start" /\ api.log[1].status = OK
    /\ api.log[1].after.current_source = <<"webcam">>
    /\ api.log[2].request = "start" /\ api.log[2].source = <<"demo.mp4">>
    /\ api.log[2].status = BadRequest
    /\ api.log[2].after.current_source = <<"webcam">>
    /\ api.log[3].request = "stop" /\ api.log[3].status = OK
    /\ api.log[4].request = "stop" /\ api.log[4].status = BadRequest
    /\ ~api.state.is_processing
    /\ Len(Accepted) = 2

\* C24 (as claimed): at no time are two process_video tasks inside their
\* frame loops on the shared processor and collector.
SingleLoop == Cardinality({t \in Tasks : InLoop(t)}) <= 1

\* C30 (as claimed): when a stop was requested and no start follows it, no
\* further frame is processed and every frame loop exits and stays exited;
\* and whenever a task that entered the loop ends, by a stop or by an
\* exception of a pass, its capture is released, the collector stopped and
\* is_processing false.
StopTakesEffect ==
    /\ (<>[](web.last_request = "stop")) => <>[](\A t \in Tasks : Ended(t))
    /\ [][web.last_request = "stop" /\ web'.last_request = "stop" =>
             calls' = calls]_vars
    /\ [][\A t \in Tasks :
             /\ web'.task[t] \in {"done", "failed"}
             /\ \/ web.task[t] \in {"sleeping", "sending", "stopping"}
                \/ web.task[t] = "created" /\ calls' # calls
             => /\ web'.capture[t].state = "released"
                 /\ ~web'.collector.is_running
                 /\ ~web'.is_processing]_vars

====
